---- MODULE Spec2Model ----
(***************************************************************************)
(* Model of ai_diplomacy/clients.py.                                       *)
(*   Spec         the order validator: BaseModelClient._validate_orders,   *)
(*                fallback_orders and get_orders                           *)
(*   SpecVisible  get_visible_messages_for_power, with the transcript      *)
(*                owner appending messages                                 *)
(*   SpecLoad     load_model_client with _parse_model_spec and the         *)
(*                constructors of the client classes                       *)
(*   SpecExtract  BaseModelClient._extract_moves                           *)
(*   SpecScan     the comment-removal pass of _extract_moves on its own,   *)
(*                over every short text of quotes, backslashes, slashes,   *)
(*                blanks, line ends, commas and closing brackets           *)
(*   SpecReply    BaseModelClient.get_conversation_reply from the provider *)
(*                call to the return, the decoding of the response given   *)
(*                by its outcomes                                          *)
(* Each specification moves the variables of its component and leaves the  *)
(* variables of the other components at their idle values.                 *)
(*                                                                         *)
(* Python values are modelled as follows.                                  *)
(*   - a str is the sequence of its characters (one-character strings);    *)
(*   - a value that is not a str (None, a number) is a one-element         *)
(*     sequence holding a tag that is no character, so it is equal to no   *)
(*     str;                                                                *)
(*   - the payload handed to _validate_orders is [kind, items]: a list     *)
(*     (kind "list", its elements in items) or a non-list value;           *)
(*   - possible_orders is [kind, items]: a dict (kind "dict", its entries  *)
(*     [loc, orders] in insertion order) or a non-mapping value; the       *)
(*     value orders of an entry is again [kind, items]: a list of str, or  *)
(*     None, or a non-zero int.                                            *)
(* A call's outcome is a record whose field exc is NoExc when the call     *)
(* returned and the name of the exception when it raised.                  *)
(***************************************************************************)
EXTENDS Integers, Sequences, FiniteSets, TLC

\* the order validator
VARIABLES possible_orders, proposal, moves, pc, op, ret, llm_failed, empty_seen,
          log_file_path, order_log
\* the visibility filter
VARIABLES transcript, power_name, idx, visible, fpc, t_start
\* the client factory
VARIABLES model_id, env, lpc, client
\* the extractor
VARIABLES raw_response, xpc, matches, json_text, xret
\* the comment-removal pass
VARIABLES scanned, comment_free_json, spc
\* the conversation reply
VARIABLES llm_reply, json_blocks, parsed_messages, json_decode_error_occurred,
          success_status, messages_to_return, raising, log_records, mpc
\* the initialization of an agent's state
VARIABLES agent, agent_at_call, init_reply, init_status, init_log, ipc

ovars == <<possible_orders, proposal, moves, pc, op, ret, llm_failed, empty_seen,
           log_file_path, order_log>>
fvars == <<transcript, power_name, idx, visible, fpc, t_start>>

lvars == <<model_id, env, lpc, client>>

xvars == <<raw_response, xpc, matches, json_text, xret>>

svars == <<scanned, comment_free_json, spc>>

mvars == <<llm_reply, json_blocks, parsed_messages, json_decode_error_occurred,
           success_status, messages_to_return, raising, log_records, mpc>>

ivars == <<agent, agent_at_call, init_reply, init_status, init_log, ipc>>

vars == <<ovars, fvars, lvars, xvars, svars, mvars, ivars>>

\* the variables of the other components
not_ovars == <<fvars, lvars, xvars, svars, mvars, ivars>>
not_fvars == <<ovars, lvars, xvars, svars, mvars, ivars>>
not_lvars == <<ovars, fvars, xvars, svars, mvars, ivars>>
not_xvars == <<ovars, fvars, lvars, svars, mvars, ivars>>
not_svars == <<ovars, fvars, lvars, xvars, mvars, ivars>>
not_mvars == <<ovars, fvars, lvars, xvars, svars, ivars>>
not_ivars == <<ovars, fvars, lvars, xvars, svars, mvars>>

-----------------------------------------------------------------------------
(* Bounds of the model *)

\* longest proposal list handed to the validator
MaxMoves == 2
\* largest number of locations in possible_orders
MaxLocs == 2

-----------------------------------------------------------------------------
(* Strings *)

Chars == {"A", "B", "D", "E", "F", "H", "I", "M", "N", "P", "R", "S", "T",
          "U", "V", "W", " ", "-"}

PAR == <<"P", "A", "R">>
EDI == <<"E", "D", "I">>
MAR == <<"M", "A", "R">>

A_PAR_H     == <<"A", " ", "P", "A", "R", " ", "H">>
A_PAR_BUR   == <<"A", " ", "P", "A", "R", " ", "-", " ", "B", "U", "R">>
F_EDI_NTH   == <<"F", " ", "E", "D", "I", " ", "-", " ", "N", "T", "H">>
F_EDI_H     == <<"F", " ", "E", "D", "I", " ", "H">>
A_MAR_B     == <<"A", " ", "M", "A", "R", " ", "B">>
WAIVE       == <<"W", "A", "I", "V", "E">>
A_MAR_SPA   == <<"A", " ", "M", "A", "R", " ", "-", " ", "S", "P", "A">>

\* values that are not str
PyNone == <<"None">>

IsStr(v) == \A i \in 1..Len(v) : v[i] \in Chars

NoExc == "none"

PyList(s)  == [kind |-> "list", items |-> s]
PyNoneVal  == [kind |-> "none", items |-> <<>>]
PyIntVal   == [kind |-> "int", items |-> <<>>]
\* the str "A PAR H" as a payload: iterating it yields its characters
PyStrVal   == [kind |-> "str", items |-> [i \in 1..Len(A_PAR_H) |-> <<A_PAR_H[i]>>]]
PyDict(s)  == [kind |-> "dict", items |-> s]

-----------------------------------------------------------------------------
(* str methods used by the validator *)

\* o.endswith("H")
endswith_H(o) == Len(o) >= 1 /\ o[Len(o)] = "H"

\* s.split(): the maximal runs of non-whitespace characters, in order
RECURSIVE split_from(_, _, _, _)
split_from(s, i, cur, parts) ==
    IF i > Len(s)
    THEN IF cur = <<>> THEN parts ELSE Append(parts, cur)
    ELSE IF s[i] = " "
         THEN split_from(s, i + 1, <<>>, IF cur = <<>> THEN parts ELSE Append(parts, cur))
         ELSE split_from(s, i + 1, Append(cur, s[i]), parts)

split(s) == split_from(s, 1, <<>>, <<>>)

\* t[:3]
first3(t) == SubSeq(t, 1, IF Len(t) < 3 THEN Len(t) ELSE 3)

-----------------------------------------------------------------------------
(* fallback_orders *)

\* truth value of orders_list in "if orders_list" / "and orders_list"
truthy(orders_list) ==
    CASE orders_list.kind = "list" -> orders_list.items # <<>>
      [] orders_list.kind = "none" -> FALSE
      [] OTHER -> TRUE

\* holds = [o for o in orders_list if o.endswith("H")];
\* holds[0] if holds else orders_list[0]      (orders_list a non-empty list)
fallback_choice(orders_list) ==
    LET holds == SelectSeq(orders_list, endswith_H)
    IN  IF holds # <<>> THEN holds[1] ELSE orders_list[1]

\* the loop of fallback_orders from entry i on, fallback being acc so far
RECURSIVE fallback_loop(_, _, _)
fallback_loop(items, i, acc) ==
    IF i > Len(items) THEN [exc |-> NoExc, orders |-> acc]
    ELSE LET orders_list == items[i].orders
         IN  IF ~truthy(orders_list) THEN fallback_loop(items, i + 1, acc)
             ELSE IF orders_list.kind # "list"
                  THEN [exc |-> "TypeError", orders |-> <<>>]
                  ELSE fallback_loop(items, i + 1,
                                     Append(acc, fallback_choice(orders_list.items)))

fallback_orders(po) ==
    IF po.kind # "dict" THEN [exc |-> "AttributeError", orders |-> <<>>]
    ELSE fallback_loop(po.items, 1, <<>>)

-----------------------------------------------------------------------------
(* _validate_orders *)

\* mutant of is_list: the isinstance check left out
is_list_unchecked(m) == TRUE

\* isinstance(moves, list)
is_list(m) == m.kind = "list"

\* whether "for move_str in moves" can iterate moves
iterable(m) == m.kind \in {"list", "str"}

\* mutant of any_in: a move is accepted when its location token is a key of
\* possible_orders, whatever the rest of the order says
any_in_by_location(move_str, items, i) ==
    LET parts == split(move_str)
    IN  IF Len(parts) >= 2 /\ \E k \in i..Len(items) : items[k].loc = first3(parts[2])
        THEN "True" ELSE "False"

\* any(move_str in loc_orders for loc_orders in possible_orders.values()),
\* evaluated from entry i on: "True", "False" or the exception raised
RECURSIVE any_in(_, _, _)
any_in(move_str, items, i) ==
    IF i > Len(items) THEN "False"
    ELSE LET loc_orders == items[i].orders
         IN  IF loc_orders.kind # "list" THEN "TypeError"
             ELSE IF \E k \in 1..Len(loc_orders.items) : loc_orders.items[k] = move_str
                  THEN "True"
                  ELSE any_in(move_str, items, i + 1)

\* used_locs after an accepted move_str
mark_used(used_locs, move_str) ==
    LET parts == split(move_str)
    IN  IF Len(parts) >= 2 THEN used_locs \cup {first3(parts[2])} ELSE used_locs

\* mutant of moves_loop: an invalid move is collected once, however often it
\* is proposed
RECURSIVE moves_loop_dedup(_, _, _, _)
moves_loop_dedup(ms, po, i, st) ==
    IF i > Len(ms) THEN st
    ELSE IF po.kind # "dict" THEN [st EXCEPT !.exc = "AttributeError"]
    ELSE LET found == any_in(ms[i], po.items, 1)
         IN  CASE found = "True" ->
                    moves_loop_dedup(ms, po, i + 1,
                               [st EXCEPT !.validated = Append(@, ms[i]),
                                          !.used_locs = mark_used(@, ms[i])])
               [] found = "False" ->
                    moves_loop_dedup(ms, po, i + 1,
                               IF \E k \in 1..Len(st.invalid) : st.invalid[k] = ms[i]
                               THEN st
                               ELSE [st EXCEPT !.invalid = Append(@, ms[i])])
               [] OTHER -> [st EXCEPT !.exc = found]

\* the loop over the proposed moves from element i on;
\* st = [exc, validated, invalid, used_locs]
RECURSIVE moves_loop(_, _, _, _)
moves_loop(ms, po, i, st) ==
    IF i > Len(ms) THEN st
    ELSE IF po.kind # "dict" THEN [st EXCEPT !.exc = "AttributeError"]
    ELSE LET found == any_in(ms[i], po.items, 1)
         IN  CASE found = "True" ->
                    moves_loop(ms, po, i + 1,
                               [st EXCEPT !.validated = Append(@, ms[i]),
                                          !.used_locs = mark_used(@, ms[i])])
               [] found = "False" ->
                    moves_loop(ms, po, i + 1, [st EXCEPT !.invalid = Append(@, ms[i])])
               [] OTHER -> [st EXCEPT !.exc = found]

\* mutant of fill_choice: always the first legal action
fill_choice_first(orders_list) == orders_list[1]

\* hold_candidates[0] if hold_candidates else orders_list[0]
fill_choice(orders_list) ==
    LET hold_candidates == SelectSeq(orders_list, endswith_H)
    IN  IF hold_candidates # <<>> THEN hold_candidates[1] ELSE orders_list[1]

\* mutant of fill_guard: used_locs is not consulted
fill_guard_ignores_used(loc, orders_list, used_locs) == truthy(orders_list)

\* if loc not in used_locs and orders_list
fill_guard(loc, orders_list, used_locs) ==
    loc \notin used_locs /\ truthy(orders_list)

\* mutant of fill_loop: a fallback is put before the actions collected so
\* far
RECURSIVE fill_loop_in_front(_, _, _)
fill_loop_in_front(items, i, st) ==
    IF i > Len(items) THEN st
    ELSE LET orders_list == items[i].orders
         IN  IF ~fill_guard(items[i].loc, orders_list, st.used_locs)
             THEN fill_loop_in_front(items, i + 1, st)
             ELSE IF orders_list.kind # "list" THEN [st EXCEPT !.exc = "TypeError"]
                  ELSE fill_loop_in_front(items, i + 1,
                                 [st EXCEPT !.validated =
                                     <<fill_choice(orders_list.items)>> \o @])

\* the "fill missing with hold" loop from entry i on
RECURSIVE fill_loop(_, _, _)
fill_loop(items, i, st) ==
    IF i > Len(items) THEN st
    ELSE LET orders_list == items[i].orders
         IN  IF ~fill_guard(items[i].loc, orders_list, st.used_locs)
             THEN fill_loop(items, i + 1, st)
             ELSE IF orders_list.kind # "list" THEN [st EXCEPT !.exc = "TypeError"]
                  ELSE fill_loop(items, i + 1,
                                 [st EXCEPT !.validated =
                                     Append(@, fill_choice(orders_list.items))])

\* mutant of validate_return: the all-invalid branch returns the empty list
\* of the branch above it instead of invalid_moves_found
validate_return_drops_invalid(po, st) ==
    IF st.validated = <<>>
    THEN LET fb == fallback_orders(po)
         IN  [exc |-> fb.exc, orders |-> fb.orders, invalid |-> <<>>]
    ELSE [exc |-> NoExc, orders |-> st.validated, invalid |-> st.invalid]

\* the return statements at the end of _validate_orders
validate_return(po, st) ==
    IF st.validated = <<>> /\ st.invalid = <<>>
    THEN LET fb == fallback_orders(po)
         IN  [exc |-> fb.exc, orders |-> fb.orders, invalid |-> <<>>]
    ELSE IF st.validated = <<>> /\ st.invalid # <<>>
    THEN LET fb == fallback_orders(po)
         IN  [exc |-> fb.exc, orders |-> fb.orders,
              invalid |-> IF fb.exc = NoExc THEN st.invalid ELSE <<>>]
    ELSE [exc |-> NoExc, orders |-> st.validated, invalid |-> st.invalid]

raised(e) == [exc |-> e, orders |-> <<>>, invalid |-> <<>>]

_validate_orders(m, po) ==
    IF ~is_list(m)
    THEN LET fb == fallback_orders(po)
         IN  [exc |-> fb.exc, orders |-> fb.orders, invalid |-> <<>>]
    ELSE IF ~iterable(m) THEN raised("TypeError")
    ELSE LET st0 == [exc |-> NoExc, validated |-> <<>>, invalid |-> <<>>, used_locs |-> {}]
             st1 == moves_loop(m.items, po, 1, st0)
         IN  IF st1.exc # NoExc THEN raised(st1.exc)
             ELSE IF po.kind # "dict" THEN raised("AttributeError")
             ELSE LET st2 == fill_loop(po.items, 1, st1)
                  IN  IF st2.exc # NoExc THEN raised(st2.exc)
                      ELSE validate_return(po, st2)

-----------------------------------------------------------------------------
(* get_orders, from the initialisation of raw_response on.  llm_raises says *)
(* whether run_llm_and_log, the formatter or _extract_moves raised an       *)
(* Exception inside the try block; move_list is what _extract_moves         *)
(* returned otherwise.                                                      *)

max_invalid_to_log == 5

\* truth value of move_list in "if not move_list"
moves_truthy(m) ==
    CASE m.kind = "list" -> m.items # <<>>
      [] m.kind = "none" -> FALSE
      [] OTHER -> TRUE

\* ", ".join(display_invalid_moves) raises TypeError on an item that is no str
join_raises(invalid_moves_list) ==
    LET n == IF Len(invalid_moves_list) < max_invalid_to_log
             THEN Len(invalid_moves_list) ELSE max_invalid_to_log
        display_invalid_moves == SubSeq(invalid_moves_list, 1, n)
    IN  \E i \in 1..n : ~IsStr(display_invalid_moves[i])

\* mutant of get_orders: no try/except around the provider call and the
\* validation
get_orders_unguarded(po, llm_raises, move_list) ==
    LET fb == fallback_orders(po)
    IN  IF fb.exc # NoExc THEN [exc |-> fb.exc, orders |-> <<>>, status |-> ""]
        ELSE IF llm_raises THEN [exc |-> "Exception", orders |-> <<>>, status |-> ""]
        ELSE IF ~moves_truthy(move_list)
        THEN [exc |-> NoExc, orders |-> fb.orders, status |-> "Failure: No moves extracted"]
        ELSE LET v == _validate_orders(move_list, po)
             IN  IF v.exc # NoExc THEN [exc |-> v.exc, orders |-> <<>>, status |-> ""]
                 ELSE [exc |-> NoExc, orders |-> v.orders,
                       status |-> IF v.invalid # <<>> THEN "Failure: Invalid LLM Moves"
                                  ELSE "Success"]

get_orders(po, llm_raises, move_list) ==
    LET fb == fallback_orders(po)
    IN  IF fb.exc # NoExc THEN [exc |-> fb.exc, orders |-> <<>>, status |-> ""]
        ELSE IF llm_raises
        THEN [exc |-> NoExc, orders |-> fb.orders, status |-> "Failure: Exception"]
        ELSE IF ~moves_truthy(move_list)
        THEN [exc |-> NoExc, orders |-> fb.orders, status |-> "Failure: No moves extracted"]
        ELSE LET v == _validate_orders(move_list, po)
             IN  IF v.exc # NoExc
                 THEN [exc |-> NoExc, orders |-> fb.orders, status |-> "Failure: Exception"]
                 ELSE IF v.invalid # <<>>
                 THEN IF join_raises(v.invalid)
                      THEN [exc |-> NoExc, orders |-> v.orders,
                            status |-> "Failure: Exception"]
                      ELSE [exc |-> NoExc, orders |-> v.orders,
                            status |-> "Failure: Invalid LLM Moves"]
                 ELSE [exc |-> NoExc, orders |-> v.orders, status |-> "Success"]

\* the values of log_file_path: no path (None or "") and a path
OrderLogPaths == {<<>>, <<"l", "o", "g">>}

\* lines 180-193, the finally block: one call of log_llm_response with the
\* status reached, when a path is given
log_llm_response_calls(path, status) ==
    IF path # <<>> THEN <<status>> ELSE <<>>

\* mutant of get_orders_log: the record is written at the end of the try
\* block instead of in a finally block
get_orders_log_after_try(r, path) ==
    IF r.exc # NoExc \/ r.status = "Failure: Exception" THEN <<>>
    ELSE log_llm_response_calls(path, r.status)

\* the log_llm_response calls of a call of get_orders that ended as r: none
\* when line 111 raised before the try block was entered (the only error
\* that leaves get_orders), else those of the finally block with the status
\* the try and except blocks left
get_orders_log(r, path) ==
    IF r.exc # NoExc THEN <<>>
    ELSE log_llm_response_calls(path, r.status)

-----------------------------------------------------------------------------
(* Inputs *)

SeqsUpTo(S, n) == UNION {[1..k -> S] : k \in 0..n}

\* the values a location can be mapped to: lists of legal actions, and the
\* malformed values None and a number
OrderLists(loc) ==
    CASE loc = PAR -> {PyList(<<A_PAR_BUR, A_PAR_H>>), PyNoneVal}
      [] loc = EDI -> {PyList(<<F_EDI_NTH, F_EDI_H>>), PyIntVal}
      [] loc = MAR -> {PyList(<<A_MAR_B, WAIVE>>), PyList(<<>>)}

Locations == {PAR, EDI, MAR}

Entries == UNION {{[loc |-> l, orders |-> o] : o \in OrderLists(l)} : l \in Locations}

\* a dict has each key once
DistinctKeys(items) ==
    \A i, j \in 1..Len(items) : i # j => items[i].loc # items[j].loc

LegalActionSets ==
    {PyDict(items) : items \in {s \in SeqsUpTo(Entries, MaxLocs) : DistinctKeys(s)}}
    \cup {PyNoneVal, PyList(<<>>)}

\* what a proposal list can hold: legal and illegal action strings, non-strings
MoveValues == {A_PAR_H, A_PAR_BUR, WAIVE, A_MAR_SPA, PyNone}

Payloads == {PyList(s) : s \in SeqsUpTo(MoveValues, MaxMoves)} \cup {PyNoneVal, PyStrVal}

WellFormed(po) ==
    po.kind = "dict" /\ \A i \in 1..Len(po.items) : po.items[i].orders.kind = "list"

-----------------------------------------------------------------------------
(* The calls *)
(* possible_orders is the legal-action set of the turn and proposal the     *)
(* payload extracted from the response of the turn.  The caller calls the   *)
(* three methods in any order, any number of times, each time with the      *)
(* proposal or with the empty list; moves is the payload of the last call,  *)
(* pc says how it ended.  empty_seen keeps the ValidatedOrders of the first *)
(* and of the latest validation of an empty proposal list.                  *)

NoRet == [exc |-> NoExc, orders |-> <<>>, invalid |-> <<>>, status |-> ""]

Done(r) == IF r.exc = NoExc THEN "returned" ELSE "raised"

EmptyList == PyList(<<>>)

\* the variables of the order validator before any call on fixed inputs
OrdersIdle ==
    /\ possible_orders = PyDict(<<>>)
    /\ proposal = PyList(<<>>)
    /\ moves = PyList(<<>>)
    /\ pc = "ready"
    /\ op = "none"
    /\ ret = NoRet
    /\ llm_failed = FALSE
    /\ empty_seen = <<>>
    /\ log_file_path = <<>>
    /\ order_log = <<>>

\* the visibility filter not in use, the transcript empty
FilterIdle ==
    /\ transcript = <<>>
    /\ power_name = ""
    /\ idx = 0
    /\ visible = <<>>
    /\ fpc = "idle"
    /\ t_start = <<>>

\* the factory not called, on a fixed model id
LoadIdle ==
    /\ model_id = <<>>
    /\ env = <<>>
    /\ lpc = "idle"
    /\ client = <<>>

\* the extractor not called
ExtractIdle ==
    /\ raw_response = <<>>
    /\ xpc = "idle"
    /\ matches = [found |-> FALSE, group |-> <<>>]
    /\ json_text = PyNone
    /\ xret = [exc |-> "pending", val |-> PyNoneVal]

\* the comment-removal pass not run
ScanIdle ==
    /\ scanned = <<>>
    /\ comment_free_json = <<>>
    /\ spc = "idle"

\* get_conversation_reply not called
ReplyIdle ==
    /\ llm_reply = [provider |-> "none", direct |-> "list", items |-> <<>>,
                    unformatted |-> FALSE, found |-> <<>>, search_raises |-> FALSE,
                    log_file_path |-> <<>>]
    /\ json_blocks = <<>>
    /\ parsed_messages = <<>>
    /\ json_decode_error_occurred = FALSE
    /\ success_status = ""
    /\ messages_to_return = <<>>
    /\ raising = "none"
    /\ log_records = <<>>
    /\ mpc = "idle"

\* initialize_agent_state_ext not called, on an agent without state
AgentIdle ==
    /\ agent = [power_name |-> "", goals |-> <<>>, relationships |-> <<>>,
                journal |-> <<>>]
    /\ agent_at_call = agent
    /\ init_reply = [outcome |-> "none", goals |-> "absent",
                     relationships |-> [kind |-> "none", items |-> <<>>],
                     log_file_path |-> <<>>]
    /\ init_status = ""
    /\ init_log = <<>>
    /\ ipc = "idle"

Init ==
    /\ AgentIdle
    /\ ScanIdle
    /\ ReplyIdle
    /\ FilterIdle
    /\ LoadIdle
    /\ ExtractIdle
    /\ possible_orders \in LegalActionSets
    /\ proposal \in Payloads
    /\ moves = proposal
    /\ pc = "ready"
    /\ op = "none"
    /\ ret = NoRet
    /\ llm_failed = FALSE
    /\ empty_seen = <<>>
    /\ log_file_path = <<>>
    /\ order_log = <<>>

Call_validate_orders ==
    \E m \in {proposal, EmptyList} :
        LET r == _validate_orders(m, possible_orders)
        IN  /\ moves' = m
            /\ ret' = [exc |-> r.exc, orders |-> r.orders, invalid |-> r.invalid,
                       status |-> ""]
            /\ pc' = Done(r)
            /\ op' = "_validate_orders"
            /\ llm_failed' = FALSE
            /\ empty_seen' = IF m = EmptyList /\ r.exc = NoExc
                             THEN IF empty_seen = <<>> THEN <<r.orders>>
                                  ELSE <<empty_seen[1], r.orders>>
                             ELSE empty_seen
            /\ log_file_path' = <<>>
            /\ order_log' = <<>>
            /\ UNCHANGED <<possible_orders, proposal>>
            /\ UNCHANGED not_ovars

Call_fallback_orders ==
    LET r == fallback_orders(possible_orders)
    IN  /\ ret' = [exc |-> r.exc, orders |-> r.orders, invalid |-> <<>>, status |-> ""]
        /\ pc' = Done(r)
        /\ op' = "fallback_orders"
        /\ llm_failed' = FALSE
        /\ log_file_path' = <<>>
        /\ order_log' = <<>>
        /\ UNCHANGED <<possible_orders, proposal, moves, empty_seen>>
        /\ UNCHANGED not_ovars

Call_get_orders ==
    \E m \in {proposal, EmptyList}, f \in BOOLEAN :
        LET r == get_orders(possible_orders, f, m)
        IN  /\ moves' = m
            /\ llm_failed' = f
            /\ ret' = [exc |-> r.exc, orders |-> r.orders, invalid |-> <<>>,
                       status |-> r.status]
            /\ pc' = Done(r)
            /\ op' = "get_orders"
            /\ \E path \in OrderLogPaths :
                  /\ log_file_path' = path
                  /\ order_log' = get_orders_log(r, path)
            /\ UNCHANGED <<possible_orders, proposal, empty_seen>>
            /\ UNCHANGED not_ovars

\* get_orders when the task is cancelled while the provider call of line 115
\* is awaited: CancelledError is no Exception, so line 176 does not catch
\* it; the finally block runs with success_status as line 110 set it and
\* the error leaves the call
Cancelled_get_orders ==
    /\ fallback_orders(possible_orders).exc = NoExc
    /\ \E path \in OrderLogPaths :
          /\ log_file_path' = path
          /\ order_log' = log_llm_response_calls(path, "Failure: Initialized")
    /\ moves' = EmptyList
    /\ llm_failed' = FALSE
    /\ ret' = [exc |-> "CancelledError", orders |-> <<>>, invalid |-> <<>>,
               status |-> ""]
    /\ pc' = "raised"
    /\ op' = "get_orders_cancelled"
    /\ UNCHANGED <<possible_orders, proposal, empty_seen>>
    /\ UNCHANGED not_ovars

Next ==
    \/ Call_validate_orders
    \/ Call_fallback_orders
    \/ Call_get_orders
    \/ Cancelled_get_orders

Spec == Init /\ [][Next]_vars

TypeOK ==
    /\ pc \in {"ready", "returned", "raised"}
    /\ op \in {"none", "_validate_orders", "fallback_orders", "get_orders",
               "get_orders_cancelled"}
    /\ log_file_path \in OrderLogPaths
    /\ Len(order_log) <= 1
    /\ possible_orders \in LegalActionSets
    /\ proposal \in Payloads
    /\ moves \in {proposal, EmptyList}
    /\ Len(empty_seen) <= 2

-----------------------------------------------------------------------------
(* Vocabulary of the properties *)

ValidateReturned == op = "_validate_orders" /\ pc = "returned"

Entry(i) == possible_orders.items[i]

NumLocs == IF possible_orders.kind = "dict" THEN Len(possible_orders.items) ELSE 0

\* a is an element of the legal sequence of location i
LegalAt(a, i) ==
    /\ Entry(i).orders.kind = "list"
    /\ \E k \in 1..Len(Entry(i).orders.items) : Entry(i).orders.items[k] = a

Legal(a) == \E i \in 1..NumLocs : LegalAt(a, i)

Illegal(a) == ~Legal(a)

NonEmptyAt(i) == Entry(i).orders.kind = "list" /\ Entry(i).orders.items # <<>>

\* number of positions of sequence s holding a
Count(a, s) == Cardinality({j \in 1..Len(s) : s[j] = a})

\* the proposal list of the last call (empty for a payload that is no list)
Proposed == IF moves.kind = "list" THEN moves.items ELSE <<>>

\* the location an action string resolves to: the first three characters of
\* its second whitespace-delimited token
HasLoc(a) == Len(split(a)) >= 2
LocOf(a) == first3(split(a)[2])

\* a hold order: unit, location, H
IsHold(a) == Len(split(a)) = 3 /\ split(a)[3] = <<"H">>

FullFallback == fallback_orders(possible_orders).orders

WF == WellFormed(possible_orders)

\* location i has a non-empty legal sequence and no proposed action is one of
\* its legal actions or resolves to it
Uncovered(i) ==
    /\ NonEmptyAt(i)
    /\ \A j \in 1..Len(Proposed) :
          /\ ~LegalAt(Proposed[j], i)
          /\ ~(Legal(Proposed[j]) /\ HasLoc(Proposed[j]) /\ LocOf(Proposed[j]) = Entry(i).loc)

-----------------------------------------------------------------------------
(* Properties of the order validator *)

\* C1 (total coverage): when _validate_orders returns for a well-formed
\* possible_orders, ValidatedOrders holds exactly one action of every location
\* whose legal sequence is non-empty and none of a location whose legal
\* sequence is empty.  The code violates it: accepted proposals are appended
\* without regard to the locations already covered.
C1_TotalCoverage ==
    (ValidateReturned /\ WF) =>
        \A i \in 1..NumLocs :
            Cardinality({j \in 1..Len(ret.orders) : LegalAt(ret.orders[j], i)})
                = IF NonEmptyAt(i) THEN 1 ELSE 0

\* C2 (legality): every action of the ValidatedOrders returned by
\* _validate_orders, proposed or synthesized, is an element of the legal
\* sequence of some location.
C2_Legality ==
    (ValidateReturned /\ WF) => \A j \in 1..Len(ret.orders) : Legal(ret.orders[j])

\* a call that accepted a proposal, rejected another and synthesized a fallback
C2_Witness ==
    /\ ValidateReturned /\ WF /\ moves.kind = "list"
    /\ ret.invalid # <<>>
    /\ \E j \in 1..Len(ret.orders) : Count(ret.orders[j], Proposed) > 0
    /\ \E j \in 1..Len(ret.orders) : Count(ret.orders[j], Proposed) = 0

\* C3 (accept/reject partition): for a list proposal, RejectedActions is the
\* subsequence of the proposal (same order, same multiplicity) of the actions
\* found in no legal sequence; a proposed action that is legal is in
\* ValidatedOrders (at least as often as proposed) and not in RejectedActions,
\* one that is not legal is in RejectedActions and not in ValidatedOrders.
C3_AcceptRejectPartition ==
    (ValidateReturned /\ WF /\ moves.kind = "list") =>
        /\ ret.invalid = SelectSeq(moves.items, Illegal)
        /\ \A j \in 1..Len(moves.items) :
              LET a == moves.items[j]
              IN  IF Legal(a)
                  THEN /\ Count(a, ret.orders) >= Count(a, moves.items)
                       /\ Count(a, ret.invalid) = 0
                  ELSE /\ Count(a, ret.orders) = 0
                       /\ Count(a, ret.invalid) = Count(a, moves.items)

\* a proposal of one legal action followed by one illegal action
C3_Witness ==
    /\ ValidateReturned /\ WF /\ moves.kind = "list"
    /\ Len(moves.items) = 2
    /\ Legal(moves.items[1]) /\ Illegal(moves.items[2])
    /\ ret.invalid = <<moves.items[2]>>

\* C4 (fallback choice): for every uncovered location with a non-empty legal
\* sequence, the action of that location in ValidatedOrders is a hold order
\* when the legal sequence holds one, and the first legal action otherwise.
\* The code violates it: it takes the first action whose last character is H,
\* which can be a move to a province whose name ends in H.
C4_FallbackPrefersHold ==
    (ValidateReturned /\ WF) =>
        \A i \in 1..NumLocs :
            Uncovered(i) =>
                LET orders_list == Entry(i).orders.items
                IN  IF \E k \in 1..Len(orders_list) : IsHold(orders_list[k])
                    THEN /\ \E j \in 1..Len(ret.orders) : LegalAt(ret.orders[j], i)
                         /\ \A j \in 1..Len(ret.orders) :
                               LegalAt(ret.orders[j], i) => IsHold(ret.orders[j])
                    ELSE \E j \in 1..Len(ret.orders) : ret.orders[j] = orders_list[1]

\* C5 (deterministic full fallback): every validation of an empty proposal
\* list returns the same ValidatedOrders, the first one and the latest one
\* alike, and they are fallback_orders(possible_orders).
C5_DeterministicFullFallback ==
    /\ \A k \in 1..Len(empty_seen) :
          /\ fallback_orders(possible_orders).exc = NoExc
          /\ empty_seen[k] = FullFallback
    /\ (ValidateReturned /\ moves = EmptyList) => ret.orders = FullFallback

\* the empty list was validated at least twice, the turn's proposal is another
\* payload, and the fallback covers two locations
C5_Witness ==
    /\ ValidateReturned /\ moves = EmptyList /\ proposal # EmptyList
    /\ Len(empty_seen) = 2
    /\ Len(ret.orders) = 2

\* C6 (degenerate proposals): when the proposal list is empty or every
\* proposed action is rejected, ValidatedOrders is the full fallback and
\* RejectedActions is the proposal list itself (empty exactly when nothing was
\* proposed).
C6_DegenerateProposals ==
    (/\ ValidateReturned /\ WF /\ moves.kind = "list"
     /\ \A j \in 1..Len(moves.items) : Illegal(moves.items[j])) =>
        /\ ret.orders = FullFallback
        /\ ret.invalid = moves.items
        /\ (ret.invalid = <<>>) <=> (moves.items = <<>>)

\* every proposed action was rejected and fallbacks were synthesized
C6_Witness ==
    /\ ValidateReturned /\ WF /\ moves.kind = "list"
    /\ moves.items # <<>>
    /\ \A j \in 1..Len(moves.items) : Illegal(moves.items[j])
    /\ ret.orders # <<>>

\* C7 (short-circuit on a malformed payload): a payload that is no list, or a
\* list holding an element that is no string, yields the full fallback and an
\* empty RejectedActions.  The code violates it for lists: only
\* isinstance(moves, list) is tested, so the non-string elements are rejected
\* one by one and the string elements are validated.
C7_ShortCircuitOnMalformedPayload ==
    (/\ ValidateReturned /\ WF
     /\ \/ moves.kind # "list"
        \/ \E j \in 1..Len(moves.items) : ~IsStr(moves.items[j])) =>
        /\ ret.orders = FullFallback
        /\ ret.invalid = <<>>

\* C8 (no fallback for empty locations): the number of synthesized actions
\* (ValidatedOrders less the accepted proposals) is the number of locations
\* with a non-empty legal sequence that no accepted proposal resolves to;
\* fallback_orders returns one action per location with a non-empty legal
\* sequence.  A location with an empty legal sequence adds nothing.
C8_NoFallbackForEmptyLocations ==
    /\ (ValidateReturned /\ WF) =>
          LET accepted == {j \in 1..Len(Proposed) : Legal(Proposed[j])}
              uncovered == {i \in 1..NumLocs :
                              /\ NonEmptyAt(i)
                              /\ \A j \in accepted :
                                    ~(HasLoc(Proposed[j])
                                      /\ LocOf(Proposed[j]) = Entry(i).loc)}
          IN  Len(ret.orders) - Cardinality(accepted) = Cardinality(uncovered)
    /\ (op = "fallback_orders" /\ pc = "returned" /\ WF) =>
          Len(ret.orders) = Cardinality({i \in 1..NumLocs : NonEmptyAt(i)})

\* possible_orders has a location with an empty legal sequence and an
\* uncovered one with a non-empty sequence, for which a fallback was made
C8_Witness ==
    /\ ValidateReturned /\ WF
    /\ \E i \in 1..NumLocs : ~NonEmptyAt(i)
    /\ \E i \in 1..NumLocs : Uncovered(i)
    /\ Len(ret.orders) = 1

\* C9 (no failure on bad proposals): for a well-formed possible_orders,
\* _validate_orders returns whatever the payload is; it never raises.
C9_ValidatorNeverRaises ==
    (op = "_validate_orders" /\ WF) => pc = "returned"

\* the payload was None, and it was a list holding a non-string
C9_Witness ==
    /\ ValidateReturned /\ WF
    /\ \/ moves = PyNoneVal
       \/ moves.kind = "list" /\ \E j \in 1..Len(moves.items) : ~IsStr(moves.items[j])
    /\ possible_orders.items # <<>>

\* C10 (caller contract violation propagates): when possible_orders is null,
\* no mapping, or maps a location to a value that is no sequence,
\* _validate_orders and get_orders end in a raised error.  The code violates
\* it: a location mapped to None is skipped as "no legal action" and a list
\* is returned, and get_orders catches the TypeError of the membership test.
C10_ContractViolationPropagates ==
    (op \in {"_validate_orders", "get_orders"} /\ ~WF) => pc = "raised"

\* C11 (get_orders absorbs failures): when fallback_orders(possible_orders)
\* itself can be computed, get_orders returns; it returns exactly
\* fallback_orders(possible_orders) when the provider call, the formatter or
\* the extraction raised or when nothing (None or an empty list) was
\* extracted; and every returned action is legal.
C11_GetOrdersAbsorbsFailures ==
    (op = "get_orders" /\ fallback_orders(possible_orders).exc = NoExc) =>
        /\ pc = "returned"
        /\ (llm_failed \/ ~moves_truthy(moves)) => ret.orders = FullFallback
        /\ \A j \in 1..Len(ret.orders) : Legal(ret.orders[j])

\* the provider call raised while a non-empty proposal was on its way, and
\* get_orders returned a fallback for two locations
C11_Witness ==
    /\ op = "get_orders" /\ pc = "returned" /\ llm_failed
    /\ moves.kind = "list" /\ moves.items # <<>>
    /\ Len(ret.orders) = 2

(***************************************************************************)
(* get_visible_messages_for_power (lines 1338-1347)                        *)
(*                                                                         *)
(* A message is a dict; sender is always present, recipient may be absent  *)
(* (has_recipient = FALSE, the recipient field is then not looked at).     *)
(* The transcript is a Python list owned by the caller, who only appends.  *)
(* The for loop is a list iterator: each step compares its index with the  *)
(* current length of the list, so it also visits messages appended while   *)
(* it runs, and ends when the index reaches the length.                    *)
(***************************************************************************)
MaxTranscript == 3

ALL == "ALL"
GLOBAL == "GLOBAL"

Msg(s, r) == [sender |-> s, has_recipient |-> TRUE, recipient |-> r]
MsgNoRecipient(s) == [sender |-> s, has_recipient |-> FALSE, recipient |-> ""]

Messages ==
    { Msg("A", ALL), Msg("B", "C"), Msg("A", "C"), Msg("B", GLOBAL),
      Msg("C", "A"), MsgNoRecipient("A"), MsgNoRecipient("C") }

Participants == {"C", "D"}

\* the condition of line 1345, operands evaluated left to right:
\* msg["recipient"] is subscripted first and raises KeyError when absent
is_visible(msg, p) ==
    IF ~msg.has_recipient THEN "KeyError"
    ELSE IF \/ msg.recipient = ALL
            \/ msg.recipient = GLOBAL
            \/ msg.sender = p
            \/ msg.recipient = p
         THEN "True"
         ELSE "False"

\* the owner of the transcript appends one message (at any time)
OwnerAppend ==
    /\ Len(transcript) < MaxTranscript
    /\ \E m \in Messages : transcript' = Append(transcript, m)
    /\ UNCHANGED <<power_name, idx, visible, fpc, t_start>>
    /\ UNCHANGED not_fvars

\* line 1342: visible = [] and the iterator of the for loop is created
FilterCall ==
    /\ fpc \in {"idle", "done", "raised"}
    /\ \E p \in Participants : power_name' = p
    /\ idx' = 0
    /\ visible' = <<>>
    /\ fpc' = "iter"
    /\ t_start' = transcript
    /\ UNCHANGED transcript
    /\ UNCHANGED not_fvars

\* lines 1343-1346: one turn of the loop on the next message
FilterStep ==
    /\ fpc = "iter"
    /\ idx < Len(transcript)
    /\ LET msg == transcript[idx + 1]
           v == is_visible(msg, power_name)
       IN  /\ fpc' = IF v = "KeyError" THEN "raised" ELSE "iter"
           /\ idx' = idx + 1
           /\ visible' = IF v = "True" THEN Append(visible, msg) ELSE visible
    /\ UNCHANGED <<transcript, power_name, t_start>>
    /\ UNCHANGED not_fvars

\* line 1347: the iterator is exhausted, the function returns visible
FilterReturn ==
    /\ fpc = "iter"
    /\ idx >= Len(transcript)
    /\ fpc' = "done"
    /\ UNCHANGED <<transcript, power_name, idx, visible, t_start>>
    /\ UNCHANGED not_fvars

InitVisible ==
    /\ AgentIdle
    /\ ScanIdle
    /\ ReplyIdle
    /\ OrdersIdle
    /\ FilterIdle
    /\ LoadIdle
    /\ ExtractIdle

NextVisible ==
    \/ OwnerAppend
    \/ FilterCall
    \/ FilterStep
    \/ FilterReturn

SpecVisible == InitVisible /\ [][NextVisible]_vars

TypeOKVisible ==
    /\ transcript \in SeqsUpTo(Messages, MaxTranscript)
    /\ power_name \in Participants \cup {""}
    /\ idx \in 0..MaxTranscript
    /\ fpc \in {"idle", "iter", "done", "raised"}
    /\ Len(visible) <= Len(transcript)

(***************************************************************************)
(* Vocabulary of the visibility claims                                     *)
(***************************************************************************)
\* spec section 4.3: included iff recipient is the broadcast marker, or
\* sender == participant, or recipient == participant
Included(msg, p) ==
    \/ msg.has_recipient /\ msg.recipient \in {ALL, GLOBAL}
    \/ msg.sender = p
    \/ msg.has_recipient /\ msg.recipient = p

RECURSIVE visible_subset(_, _)
visible_subset(T, p) ==
    IF T = <<>> THEN <<>>
    ELSE LET rest == visible_subset(SubSeq(T, 1, Len(T) - 1), p)
             last == T[Len(T)]
         IN  IF Included(last, p) THEN Append(rest, last) ELSE rest

FirstK(T, k) == SubSeq(T, 1, k)

HasRecipients(T) == \A i \in 1..Len(T) : T[i].has_recipient

\* no message was appended since the running or finished call started
Quiet == transcript = t_start

\* C17: for every transcript T and participant P the call returns exactly
\* the subsequence of T (same order, same multiplicity) of the messages
\* addressed to 'ALL' or 'GLOBAL', sent by P or addressed to P.  Stated for
\* calls during which nothing is appended: such a call does not end in an
\* error and, once returned, its result is visible_subset(T, P).
C17_VisibilityCompleteAndOrdered ==
    Quiet =>
        /\ fpc # "raised"
        /\ fpc = "done" => visible = visible_subset(transcript, power_name)

\* what holds of C17 on transcripts whose messages all carry a recipient
C17_OnTranscriptsWithRecipients ==
    (Quiet /\ HasRecipients(transcript)) =>
        /\ fpc # "raised"
        /\ fpc = "done" => visible = visible_subset(transcript, power_name)

\* the concrete scenario of spec section 9: all three for C
C17_ScenarioReached ==
    /\ fpc = "done" /\ Quiet /\ power_name = "C"
    /\ transcript = <<Msg("A", ALL), Msg("B", "C"), Msg("A", "C")>>
    /\ visible = transcript

\* C18: when the owner appends while the call iterates, the call still
\* returns without error, the transcript is only ever extended, and the
\* result is the visibility filter of some prefix of the transcript that
\* contains at least the messages present when the call started.
C18_FilterUnderConcurrentAppends ==
    /\ fpc # "raised"
    /\ Len(t_start) <= Len(transcript)
    /\ FirstK(transcript, Len(t_start)) = t_start
    /\ fpc = "done" =>
          \E k \in Len(t_start)..Len(transcript) :
              visible = visible_subset(FirstK(transcript, k), power_name)

\* what holds of C18 while every message carries a recipient
C18_OnTranscriptsWithRecipients ==
    HasRecipients(transcript) =>
        /\ fpc # "raised"
        /\ Len(t_start) <= Len(transcript)
        /\ FirstK(transcript, Len(t_start)) = t_start
        /\ fpc = "done" =>
              \E k \in Len(t_start)..Len(transcript) :
                  visible = visible_subset(FirstK(transcript, k), power_name)

\* a call that returned after the owner appended during the iteration, with
\* an appended message in the result
C18_AppendSeenReached ==
    /\ fpc = "done" /\ ~Quiet /\ HasRecipients(transcript)
    /\ Len(visible) > Len(visible_subset(t_start, power_name))

(***************************************************************************)
(* load_model_client (lines 1244-1332), _parse_model_spec (1216-1232) and  *)
(* the constructors of the client classes                                  *)
(*                                                                         *)
(* The environment maps each variable name to its value, a str, or to      *)
(* PyNone when the variable is not set.  A constructed client is the       *)
(* record of its class and of the attributes its constructor computes;     *)
(* api_key is the key the client is given.                                 *)
(***************************************************************************)
S_openai           == <<"o", "p", "e", "n", "a", "i">>
S_openai_requests  == <<"o", "p", "e", "n", "a", "i", "-", "r", "e", "q", "u", "e", "s", "t", "s">>
S_openai_responses == <<"o", "p", "e", "n", "a", "i", "-", "r", "e", "s", "p", "o", "n", "s", "e", "s">>
S_anthropic        == <<"a", "n", "t", "h", "r", "o", "p", "i", "c">>
S_gemini           == <<"g", "e", "m", "i", "n", "i">>
S_deepseek         == <<"d", "e", "e", "p", "s", "e", "e", "k">>
S_openrouter       == <<"o", "p", "e", "n", "r", "o", "u", "t", "e", "r">>
S_together         == <<"t", "o", "g", "e", "t", "h", "e", "r">>
S_o3_pro           == <<"o", "3", "-", "p", "r", "o">>
S_claude           == <<"c", "l", "a", "u", "d", "e">>
S_together_dash    == <<"t", "o", "g", "e", "t", "h", "e", "r", "-">>
S_openrouter_slash == <<"o", "p", "e", "n", "r", "o", "u", "t", "e", "r", "/">>
S_openrouter_dash  == <<"o", "p", "e", "n", "r", "o", "u", "t", "e", "r", "-">>

OpenAIBaseUrl      == <<"h", "t", "t", "p", "s", ":", "/", "/", "a", "p", "i", ".", "o", "p", "e", "n", "a", "i", ".", "c", "o", "m", "/", "v", "1">>
ResponsesBaseUrl   == <<"h", "t", "t", "p", "s", ":", "/", "/", "a", "p", "i", ".", "o", "p", "e", "n", "a", "i", ".", "c", "o", "m", "/", "v", "1", "/", "r", "e", "s", "p", "o", "n", "s", "e", "s">>
OpenRouterBaseUrl  == <<"h", "t", "t", "p", "s", ":", "/", "/", "o", "p", "e", "n", "r", "o", "u", "t", "e", "r", ".", "a", "i", "/", "a", "p", "i", "/", "v", "1">>
DeepSeekBaseUrl    == <<"h", "t", "t", "p", "s", ":", "/", "/", "a", "p", "i", ".", "d", "e", "e", "p", "s", "e", "e", "k", ".", "c", "o", "m", "/">>

UpperAlpha == <<"A", "B", "C", "D", "E", "F", "G", "H", "I", "J", "K", "L", "M",
                "N", "O", "P", "Q", "R", "S", "T", "U", "V", "W", "X", "Y", "Z">>
LowerAlpha == <<"a", "b", "c", "d", "e", "f", "g", "h", "i", "j", "k", "l", "m",
                "n", "o", "p", "q", "r", "s", "t", "u", "v", "w", "x", "y", "z">>
Whitespace == {" ", "\t", "\n"}

\* str.lower
lower_char(c) ==
    IF \E i \in 1..Len(UpperAlpha) : UpperAlpha[i] = c
    THEN LowerAlpha[CHOOSE i \in 1..Len(UpperAlpha) : UpperAlpha[i] = c]
    ELSE c
lower(s) == [i \in 1..Len(s) |-> lower_char(s[i])]

\* str.strip
RECURSIVE lstrip(_)
lstrip(s) == IF s # <<>> /\ Head(s) \in Whitespace THEN lstrip(Tail(s)) ELSE s
RECURSIVE rstrip(_)
rstrip(s) ==
    IF s # <<>> /\ s[Len(s)] \in Whitespace THEN rstrip(SubSeq(s, 1, Len(s) - 1)) ELSE s
strip(s) == rstrip(lstrip(s))

\* str.partition on a one-character separator: <<before, separator, after>>
find(s, c) ==
    IF \E i \in 1..Len(s) : s[i] = c
    THEN CHOOSE i \in 1..Len(s) : s[i] = c /\ \A j \in 1..(i - 1) : s[j] # c
    ELSE 0
partition(s, c) ==
    LET i == find(s, c)
    IN  IF i = 0 THEN <<s, <<>>, <<>>>>
        ELSE <<SubSeq(s, 1, i - 1), <<c>>, SubSeq(s, i + 1, Len(s))>>

startswith(s, p) == Len(p) <= Len(s) /\ SubSeq(s, 1, Len(p)) = p
\* p in s, for a non-empty p
contains(s, p) == \E i \in 1..(Len(s) - Len(p) + 1) : SubSeq(s, i, i + Len(p) - 1) = p

\* str.replace(old, new): every non-overlapping occurrence, left to right
RECURSIVE replace(_, _, _)
replace(s, old, new) ==
    IF s = <<>> THEN <<>>
    ELSE IF startswith(s, old)
         THEN new \o replace(SubSeq(s, Len(old) + 1, Len(s)), old, new)
         ELSE <<Head(s)>> \o replace(Tail(s), old, new)

\* s.split(p, 1)[1] for an s that starts with p
after_prefix(s, p) == SubSeq(s, Len(p) + 1, Len(s))

\* str.rstrip("/")
RECURSIVE rstrip_slash(_)
rstrip_slash(s) ==
    IF s # <<>> /\ s[Len(s)] = "/" THEN rstrip_slash(SubSeq(s, 1, Len(s) - 1)) ELSE s

\* a or b on values that are a str or None
py_or(a, b) == IF a # PyNone /\ a # <<>> THEN a ELSE b

\* lines 1216-1232
_parse_model_spec(raw) ==
    LET stripped == strip(raw)
        h == partition(stripped, "#")
        a == partition(h[1], "@")
        c == partition(a[1], ":")
    IN  [prefix |-> IF c[2] # <<>> THEN lower(c[1]) ELSE PyNone,
         model  |-> IF c[2] # <<>> THEN c[3] ELSE c[1],
         base   |-> py_or(a[3], PyNone),
         key    |-> py_or(h[3], PyNone)]

\* class Prefix (lines 1234-1242)
Prefix ==
    {S_openai, S_openai_requests, S_openai_responses, S_anthropic, S_gemini,
     S_deepseek, S_openrouter, S_together}

ClientRaised(e) ==
    [exc |-> e, cls |-> "", model_name |-> <<>>, api_key |-> PyNone, base_url |-> PyNone]
ClientObject(c, m, k, b) ==
    [exc |-> NoExc, cls |-> c, model_name |-> m, api_key |-> k, base_url |-> b]

\* lines 773-788
OpenAIClient(model_name, base_url, api_key, e) ==
    LET url == py_or(py_or(base_url, e.OPENAI_BASE_URL), OpenAIBaseUrl)
        key == py_or(api_key, e.OPENAI_API_KEY)
    IN  IF key = PyNone \/ key = <<>> THEN ClientRaised("ValueError")
        ELSE ClientObject("OpenAIClient", model_name, key, url)

\* lines 828-830
ClaudeClient(model_name, e) ==
    ClientObject("ClaudeClient", model_name, e.ANTHROPIC_API_KEY, PyNone)

\* lines 863-870
GeminiClient(model_name, e) ==
    LET key == e.GEMINI_API_KEY
    IN  IF key = PyNone \/ key = <<>> THEN ClientRaised("ValueError")
        ELSE ClientObject("GeminiClient", model_name, key, PyNone)

\* lines 901-904
DeepSeekClient(model_name, e) ==
    ClientObject("DeepSeekClient", model_name, e.DEEPSEEK_API_KEY, DeepSeekBaseUrl)

\* lines 946-952: the constructor takes model_name and prompts_dir only
OpenAIResponsesClient(model_name, e) ==
    LET key == e.OPENAI_API_KEY
    IN  IF key = PyNone \/ key = <<>> THEN ClientRaised("ValueError")
        ELSE ClientObject("OpenAIResponsesClient", model_name, key, ResponsesBaseUrl)

\* a call that passes the keyword api_key to that constructor: the
\* arguments cannot be bound, TypeError before the body runs
OpenAIResponsesClient_with_api_key(model_name, api_key, e) ==
    ClientRaised("TypeError")

\* lines 1023-1037
OpenRouterClient(model_name, e) ==
    LET n1 == IF ~startswith(model_name, S_openrouter_slash) /\ ~contains(model_name, <<"/">>)
              THEN S_openrouter_slash \o model_name
              ELSE model_name
        n2 == IF startswith(n1, S_openrouter_dash)
              THEN replace(n1, S_openrouter_dash, <<>>)
              ELSE n1
        key == e.OPENROUTER_API_KEY
    IN  IF key = PyNone \/ key = <<>> THEN ClientRaised("ValueError")
        ELSE ClientObject("OpenRouterClient", n2, key, OpenRouterBaseUrl)

\* lines 1087-1096
TogetherAIClient(model_name, e) ==
    LET key == e.TOGETHER_API_KEY
    IN  IF key = PyNone \/ key = <<>> THEN ClientRaised("ValueError")
        ELSE ClientObject("TogetherAIClient", model_name, key, PyNone)

\* lines 1143-1158
RequestsOpenAIClient(model_name, base_url, api_key, e) ==
    LET key == py_or(api_key, e.OPENAI_API_KEY)
        url == rstrip_slash(py_or(py_or(base_url, e.OPENAI_BASE_URL), OpenAIBaseUrl))
    IN  IF key = PyNone \/ key = <<>> THEN ClientRaised("ValueError")
        ELSE ClientObject("RequestsOpenAIClient", model_name, key, url)

\* lines 1263-1300: the explicit prefix path
explicit_prefix_path(spec, inline_key, e) ==
    LET pref == lower(spec.prefix)
    IN  IF pref \notin Prefix THEN ClientRaised("ValueError")
        ELSE IF pref = S_openai
             THEN OpenAIClient(spec.model, spec.base, inline_key, e)
        ELSE IF pref = S_openai_requests
             THEN RequestsOpenAIClient(spec.model, spec.base, inline_key, e)
        ELSE IF pref = S_openai_responses
             THEN OpenAIResponsesClient_with_api_key(spec.model, inline_key, e)
        ELSE IF pref = S_anthropic THEN ClaudeClient(spec.model, e)
        ELSE IF pref = S_gemini THEN GeminiClient(spec.model, e)
        ELSE IF pref = S_deepseek THEN DeepSeekClient(spec.model, e)
        ELSE IF pref = S_openrouter THEN OpenRouterClient(spec.model, e)
        ELSE TogetherAIClient(spec.model, e)

\* lines 1305-1332: the heuristic path
heuristic_path(spec, inline_key, e) ==
    LET lower_id == lower(spec.model)
    IN  IF lower_id = S_o3_pro
        THEN OpenAIResponsesClient_with_api_key(spec.model, inline_key, e)
        ELSE IF startswith(spec.model, S_together_dash)
        THEN TogetherAIClient(after_prefix(spec.model, S_together_dash), e)
        ELSE IF contains(lower_id, S_openrouter) THEN OpenRouterClient(spec.model, e)
        ELSE IF contains(lower_id, S_claude) THEN ClaudeClient(spec.model, e)
        ELSE IF contains(lower_id, S_gemini) THEN GeminiClient(spec.model, e)
        ELSE IF contains(lower_id, S_deepseek) THEN DeepSeekClient(spec.model, e)
        ELSE OpenAIClient(spec.model, spec.base, inline_key, e)

\* lines 1244-1332; "if spec.prefix" is false for None and for ""
load_model_client(id, e) ==
    LET spec == _parse_model_spec(id)
        inline_key == spec.key
    IN  IF spec.prefix # PyNone /\ spec.prefix # <<>>
        THEN explicit_prefix_path(spec, inline_key, e)
        ELSE heuristic_path(spec, inline_key, e)

(* The model ids and environments of the model *)
P_OpenAI           == <<"O", "p", "e", "n", "A", "I">>
P_foo              == <<"f", "o", "o">>
M_gpt              == <<"g", "p", "t">>
M_O3_pro           == <<"O", "3", "-", "p", "r", "o">>
M_claude           == <<"c", "l", "a", "u", "d", "e", "3">>
M_together         == <<"t", "o", "g", "e", "t", "h", "e", "r", "-", "m">>
M_gemini           == <<"g", "e", "m", "i", "n", "i", "1">>
M_deepseek         == <<"d", "e", "e", "p", "s", "e", "e", "k", "-", "r">>
M_openrouter       == <<"o", "p", "e", "n", "r", "o", "u", "t", "e", "r", "-", "a", "/", "b">>
M_my_Claude            == <<"m", "y", "-", "C", "l", "a", "u", "d", "e">>
BaseH              == <<"h", "/">>
InlineKey          == <<"i", "k">>
EnvKey             == <<"e", "k">>
EnvBase            == <<"e", "b">>

PrefixParts ==
    {<<>>} \cup
    { p \o <<":">> : p \in Prefix \cup {P_OpenAI, P_foo, <<>>} }
ModelParts ==
    {M_gpt, M_O3_pro, M_claude, M_together, M_gemini, M_deepseek, M_openrouter, M_my_Claude}
BaseParts == {<<>>, <<"@">> \o BaseH}
KeyParts == {<<>>, <<"#">>, <<"#">> \o InlineKey}
Pads == {<<>>, <<" ">>}

ModelIds ==
    { w \o p \o m \o b \o k \o w :
        w \in Pads, p \in PrefixParts, m \in ModelParts, b \in BaseParts, k \in KeyParts }

EnvVars ==
    {"OPENAI_API_KEY", "OPENAI_BASE_URL", "ANTHROPIC_API_KEY", "GEMINI_API_KEY",
     "DEEPSEEK_API_KEY", "OPENROUTER_API_KEY", "TOGETHER_API_KEY"}

\* every API key set, OPENAI_BASE_URL not set
AllKeysEnv ==
    [OPENAI_API_KEY |-> EnvKey, OPENAI_BASE_URL |-> PyNone, ANTHROPIC_API_KEY |-> EnvKey,
     GEMINI_API_KEY |-> EnvKey, DEEPSEEK_API_KEY |-> EnvKey, OPENROUTER_API_KEY |-> EnvKey,
     TOGETHER_API_KEY |-> EnvKey]

\* the keys whose absence the constructors of clients.py test themselves
CheckedKeys == {"OPENAI_API_KEY", "GEMINI_API_KEY", "OPENROUTER_API_KEY", "TOGETHER_API_KEY"}

Environments ==
    {AllKeysEnv, [AllKeysEnv EXCEPT !.OPENAI_BASE_URL = EnvBase]}
    \cup { [AllKeysEnv EXCEPT ![v] = PyNone] : v \in CheckedKeys }

InitLoad ==
    /\ AgentIdle
    /\ ScanIdle
    /\ ReplyIdle
    /\ OrdersIdle
    /\ FilterIdle
    /\ ExtractIdle
    /\ model_id \in ModelIds
    /\ env \in Environments
    /\ lpc = "ready"
    /\ client = <<>>

Call_load_model_client ==
    /\ lpc = "ready"
    /\ LET r == load_model_client(model_id, env)
       IN  /\ client' = r
           /\ lpc' = IF r.exc = NoExc THEN "returned" ELSE "raised"
    /\ UNCHANGED <<model_id, env>>
    /\ UNCHANGED not_lvars

NextLoad == Call_load_model_client

SpecLoad == InitLoad /\ [][NextLoad]_vars

TypeOKLoad ==
    /\ lpc \in {"ready", "returned", "raised"}
    /\ lpc = "returned" =>
          client.cls \in {"OpenAIClient", "RequestsOpenAIClient", "ClaudeClient",
                          "GeminiClient", "DeepSeekClient", "OpenRouterClient",
                          "TogetherAIClient", "OpenAIResponsesClient"}
    /\ lpc = "raised" => client.exc \in {"ValueError", "TypeError"}

(***************************************************************************)
(* Vocabulary of the factory claims                                        *)
(***************************************************************************)
ApiKeyVars == EnvVars \ {"OPENAI_BASE_URL"}
KeysAvailable == \A v \in ApiKeyVars : env[v] # PyNone

ParsedId == _parse_model_spec(model_id)
HasExplicitPrefix == ParsedId.prefix # PyNone /\ ParsedId.prefix # <<>>
HasInlineKey == ParsedId.key # PyNone
LoadEnded == lpc \in {"returned", "raised"}

\* the class that belongs to each recognised prefix
ClassOfPrefix(pref) ==
    CASE pref = S_openai           -> "OpenAIClient"
      [] pref = S_openai_requests  -> "RequestsOpenAIClient"
      [] pref = S_openai_responses -> "OpenAIResponsesClient"
      [] pref = S_anthropic        -> "ClaudeClient"
      [] pref = S_gemini           -> "GeminiClient"
      [] pref = S_deepseek         -> "DeepSeekClient"
      [] pref = S_openrouter       -> "OpenRouterClient"
      [] pref = S_together         -> "TogetherAIClient"

Dispatched ==
    IF ParsedId.prefix \in Prefix
    THEN lpc = "returned" /\ client.cls = ClassOfPrefix(ParsedId.prefix)
    ELSE lpc = "raised" /\ client.exc = "ValueError"

\* C19: with the API keys available, a model id with one of the eight
\* prefixes (in any letter case) yields a client of the class of that
\* prefix, and any other prefix raises ValueError.
C19_PrefixDispatch ==
    (LoadEnded /\ KeysAvailable /\ HasExplicitPrefix) => Dispatched

\* what holds of C19: every prefix but openai-responses
C19_ExceptOpenAIResponses ==
    (LoadEnded /\ KeysAvailable /\ HasExplicitPrefix
        /\ ParsedId.prefix # S_openai_responses) => Dispatched

\* an id whose prefix is written with capitals reached its class
C19_MixedCaseReached ==
    /\ lpc = "returned" /\ KeysAvailable
    /\ partition(strip(model_id), ":")[1] = P_OpenAI
    /\ client.cls = "OpenAIClient"

\* C20: when the model id carries an inline API key after '#', the client
\* that is returned uses that key and not the key of the environment,
\* whichever provider the id selects.
C20_InlineKeyOverride ==
    (lpc = "returned" /\ HasInlineKey) => client.api_key = ParsedId.key

\* what holds of C20: the two classes whose constructor takes api_key
C20_OpenAIClasses ==
    (lpc = "returned" /\ HasInlineKey
        /\ client.cls \in {"OpenAIClient", "RequestsOpenAIClient"})
        => client.api_key = ParsedId.key

\* an inline key that replaced a key set in the environment
C20_OverrideReached ==
    /\ lpc = "returned" /\ HasInlineKey /\ KeysAvailable
    /\ client.api_key = InlineKey

(***************************************************************************)
(* BaseModelClient._extract_moves (lines 196-343)                          *)
(*                                                                         *)
(* The response text is a str: a sequence of characters.  The characters   *)
(* the patterns and the decoders look at are kept as they are; a run of    *)
(* other characters that the code treats as a unit is one element of the   *)
(* sequence (the marker phrase, a fence of three backticks, a word, an     *)
(* integer literal).  LONGINT is an integer literal with more digits than  *)
(* int() converts (sys.int_info.default_max_str_digits, 4300).             *)
(***************************************************************************)
LB     == "{"
RB     == "}"
LS     == "["
RS     == "]"
COMMA  == ","
COLON  == ":"
DQ     == "\""
SQ     == "'"
BSL    == "\\"
SL     == "/"
NL     == "\n"
SP     == " "
STAR   == "*"
\* three backticks
FENCE  == "FENCE"
MARKER == "PARSABLE OUTPUT"
ORDERS == "orders"
JSONW  == "json"
NULLW  == "null"
INT1   == "1"
LONGINT == "1111...(5000 digits)"
W_APARH == "A PAR H"
W_FEDIH == "F EDI H"
W_META == "meta"

Braces == {LB, RB}
IsWs(c) == c \in Whitespace

\* the result of re.search: whether the pattern matched, and group(1)
NoMatch == [found |-> FALSE, group |-> <<>>]
Match(g) == [found |-> TRUE, group |-> g]

Min(S) == CHOOSE x \in S : \A y \in S : x <= y
Max(S) == CHOOSE x \in S : \A y \in S : x >= y

\* the first position from i on that holds no whitespace (Len(s) + 1 if none)
skip_ws(s, i) ==
    LET rest == {j \in i..Len(s) : ~IsWs(s[j])}
    IN  IF rest = {} THEN Len(s) + 1 ELSE Min(rest)

At(s, i, c) == i >= 1 /\ i <= Len(s) /\ s[i] = c
Positions(s, c, from) == {k \in from..Len(s) : s[k] = c}

\* line 207: PARSABLE OUTPUT:\s*(\{[\s\S]*\})   the group runs to the LAST "}"
pattern(s) ==
    LET ok(i) == /\ At(s, i, MARKER) /\ At(s, i + 1, COLON)
                 /\ At(s, skip_ws(s, i + 2), LB)
                 /\ Positions(s, RB, skip_ws(s, i + 2) + 1) # {}
        starts == {i \in 1..Len(s) : ok(i)}
    IN  IF starts = {} THEN NoMatch
        ELSE LET j == skip_ws(s, Min(starts) + 2)
             IN  Match(SubSeq(s, j, Max(Positions(s, RB, j + 1))))

\* line 215: PARSABLE OUTPUT\s*\{(.*?)\}\s*$   the closing "}" is the first
\* one after which only whitespace follows
pattern_alt(s) ==
    LET closers(j) == {k \in Positions(s, RB, j + 1) : skip_ws(s, k + 1) = Len(s) + 1}
        ok(i) == /\ At(s, i, MARKER)
                 /\ At(s, skip_ws(s, i + 1), LB)
                 /\ closers(skip_ws(s, i + 1)) # {}
        starts == {i \in 1..Len(s) : ok(i)}
    IN  IF starts = {} THEN NoMatch
        ELSE LET j == skip_ws(s, Min(starts) + 1)
             IN  Match(SubSeq(s, j + 1, Min(closers(j)) - 1))

\* line 221: \*\*PARSABLE OUTPUT:\*\*\s*(\{[\s\S]*?\})   to the FIRST "}"
pattern_asterisk(s) ==
    LET ok(i) == /\ At(s, i, STAR) /\ At(s, i + 1, STAR) /\ At(s, i + 2, MARKER)
                 /\ At(s, i + 3, COLON) /\ At(s, i + 4, STAR) /\ At(s, i + 5, STAR)
                 /\ At(s, skip_ws(s, i + 6), LB)
                 /\ Positions(s, RB, skip_ws(s, i + 6) + 1) # {}
        starts == {i \in 1..Len(s) : ok(i)}
    IN  IF starts = {} THEN NoMatch
        ELSE LET j == skip_ws(s, Min(starts) + 6)
             IN  Match(SubSeq(s, j, Min(Positions(s, RB, j + 1))))

\* the positions k >= from where a newline is followed by a fence
fence_ends(s, from) == {k \in from..Len(s) : s[k] = NL /\ At(s, k + 1, FENCE)}

\* line 229: a fence, json and a newline, then the group up to the first
\* newline that a fence follows
code_fence_pattern(s) ==
    LET ok(i) == /\ At(s, i, FENCE) /\ At(s, i + 1, JSONW) /\ At(s, i + 2, NL)
                 /\ fence_ends(s, i + 3) # {}
        starts == {i \in 1..Len(s) : ok(i)}
    IN  IF starts = {} THEN NoMatch
        ELSE LET i == Min(starts)
             IN  Match(SubSeq(s, i + 3, Min(fence_ends(s, i + 3)) - 1))

\* line 236: the same with no json after the opening fence
code_fence_plain(s) ==
    LET ok(i) == /\ At(s, i, FENCE) /\ At(s, i + 1, NL)
                 /\ fence_ends(s, i + 2) # {}
        starts == {i \in 1..Len(s) : ok(i)}
    IN  IF starts = {} THEN NoMatch
        ELSE LET i == Min(starts)
             IN  Match(SubSeq(s, i + 2, Min(fence_ends(s, i + 2)) - 1))

\* line 246: (\{[^{}]*"orders"\s*:\s*\[[^\]]*\][^{}]*\})
\* bare_end(s, i, q): the position of the closing "}" when the object opens
\* at i and the key "orders" opens at q, 0 when the rest does not match
bare_end(s, i, q) ==
    IF ~(/\ \A k \in (i + 1)..(q - 1) : s[k] \notin Braces
         /\ At(s, q, DQ) /\ At(s, q + 1, ORDERS) /\ At(s, q + 2, DQ))
    THEN 0
    ELSE LET c == skip_ws(s, q + 3)
         IN  IF ~At(s, c, COLON) THEN 0
             ELSE LET l == skip_ws(s, c + 1)
                  IN  IF ~At(s, l, LS) \/ Positions(s, RS, l + 1) = {} THEN 0
                      ELSE LET r == Min(Positions(s, RS, l + 1))
                               b == {k \in (r + 1)..Len(s) : s[k] \in Braces}
                           IN  IF b = {} \/ s[Min(b)] # RB THEN 0 ELSE Min(b)

bare_json_pattern(s) ==
    LET keys(i) == {q \in (i + 1)..Len(s) : bare_end(s, i, q) # 0}
        starts == {i \in 1..Len(s) : s[i] = LB /\ keys(i) # {}}
    IN  IF starts = {} THEN NoMatch
        ELSE LET i == Min(starts)
             IN  Match(SubSeq(s, i, bare_end(s, i, Max(keys(i)))))

\* lines 252-263: json_text, None when nothing matched
json_text_of(m) ==
    IF ~m.found THEN PyNone
    ELSE LET captured == strip(m.group)
             t == IF startswith(captured, <<LB, LB>>)
                  THEN SubSeq(captured, 2, Len(captured) - 1)
                  ELSE IF startswith(captured, <<LB>>) THEN captured
                  ELSE <<LB>> \o captured \o <<RB>>
         IN  strip(t)

(***************************************************************************)
(* json.loads and ast.literal_eval                                         *)
(*                                                                         *)
(* A decoded value is [kind, items]: kind "list" with one item per         *)
(* element, "str" with the content as its only item, "none", "int" or      *)
(* "dict".  An element of a list is its content when it is a str and a     *)
(* one-element tag (<<"None">>, <<"int">>, <<"list">>, <<"dict">>) when it *)
(* is not.  A decoded object also carries its members (pairs).             *)
(***************************************************************************)
JSONDecodeError == "JSONDecodeError"

Digits == {INT1, LONGINT}

ParseErr(e) == [err |-> e, next |-> 0, kind |-> "", items |-> <<>>, pairs |-> <<>>]
Parsed(n, k, it, ps) == [err |-> NoExc, next |-> n, kind |-> k, items |-> it, pairs |-> ps]

\* what a value is as an element of a list
elem_of(v) ==
    IF v.kind = "str" THEN v.items[1]
    ELSE IF v.kind = "none" THEN PyNone
    ELSE <<v.kind>>

\* the end of the run of digits that starts at i
RECURSIVE digits_end(_, _)
digits_end(s, i) == IF i <= Len(s) /\ s[i] \in Digits THEN digits_end(s, i + 1) ELSE i

\* an integer literal: int() raises ValueError beyond the digit limit
parse_int(s, i) ==
    LET n == digits_end(s, i)
    IN  IF \E k \in i..(n - 1) : s[k] = LONGINT THEN ParseErr("ValueError")
        ELSE Parsed(n, "int", <<>>, <<>>)

\* a JSON string whose opening quote is before position i
RECURSIVE json_string(_, _, _)
json_string(s, i, acc) ==
    IF i > Len(s) THEN ParseErr(JSONDecodeError)
    ELSE IF s[i] = DQ THEN Parsed(i + 1, "str", <<acc>>, <<>>)
    ELSE IF s[i] = NL THEN ParseErr(JSONDecodeError)
    ELSE IF s[i] = BSL
         THEN IF i + 1 > Len(s) THEN ParseErr(JSONDecodeError)
              ELSE IF s[i + 1] \in {DQ, BSL, SL}
                   THEN json_string(s, i + 2, Append(acc, s[i + 1]))
              ELSE IF s[i + 1] = NULLW
                   THEN json_string(s, i + 2, acc \o <<NL, "ull">>)
              ELSE ParseErr(JSONDecodeError)
    ELSE json_string(s, i + 1, Append(acc, s[i]))

RECURSIVE json_value(_, _)
RECURSIVE json_elements(_, _, _)
RECURSIVE json_members(_, _, _)

json_value(s, i) ==
    LET j == skip_ws(s, i)
    IN  IF j > Len(s) THEN ParseErr(JSONDecodeError)
        ELSE IF s[j] = DQ THEN json_string(s, j + 1, <<>>)
        ELSE IF s[j] = NULLW THEN Parsed(j + 1, "none", <<>>, <<>>)
        ELSE IF s[j] \in Digits THEN parse_int(s, j)
        ELSE IF s[j] = LS
             THEN IF At(s, skip_ws(s, j + 1), RS)
                  THEN Parsed(skip_ws(s, j + 1) + 1, "list", <<>>, <<>>)
                  ELSE json_elements(s, j + 1, <<>>)
        ELSE IF s[j] = LB
             THEN IF At(s, skip_ws(s, j + 1), RB)
                  THEN Parsed(skip_ws(s, j + 1) + 1, "dict", <<>>, <<>>)
                  ELSE json_members(s, j + 1, <<>>)
        ELSE ParseErr(JSONDecodeError)

\* the elements of an array from position i on, acc the elements so far
json_elements(s, i, acc) ==
    LET v == json_value(s, i)
    IN  IF v.err # NoExc THEN v
        ELSE LET k == skip_ws(s, v.next)
                 items == Append(acc, elem_of(v))
             IN  IF At(s, k, COMMA) THEN json_elements(s, k + 1, items)
                 ELSE IF At(s, k, RS) THEN Parsed(k + 1, "list", items, <<>>)
                 ELSE ParseErr(JSONDecodeError)

\* the members of an object from position i on, acc the members so far
json_members(s, i, acc) ==
    LET q == skip_ws(s, i)
    IN  IF ~At(s, q, DQ) THEN ParseErr(JSONDecodeError)
        ELSE LET key == json_string(s, q + 1, <<>>)
             IN  IF key.err # NoExc THEN key
                 ELSE LET c == skip_ws(s, key.next)
                      IN  IF ~At(s, c, COLON) THEN ParseErr(JSONDecodeError)
                          ELSE LET v == json_value(s, c + 1)
                               IN  IF v.err # NoExc THEN v
                                   ELSE LET k == skip_ws(s, v.next)
                                            ps == Append(acc, [key |-> key.items[1],
                                                               kind |-> v.kind,
                                                               items |-> v.items])
                                        IN  IF At(s, k, COMMA) THEN json_members(s, k + 1, ps)
                                            ELSE IF At(s, k, RB)
                                                 THEN Parsed(k + 1, "dict", <<>>, ps)
                                            ELSE ParseErr(JSONDecodeError)

\* json.loads: one value, then nothing but whitespace
json_loads(s) ==
    LET v == json_value(s, 1)
    IN  IF v.err # NoExc THEN v
        ELSE IF skip_ws(s, v.next) <= Len(s) THEN ParseErr(JSONDecodeError)
        ELSE v

PyVal(k, it) == [kind |-> k, items |-> it]

\* how a call of _extract_moves ends
Returns(v) == [exc |-> NoExc, val |-> v]
Raises(e) == [exc |-> e, val |-> PyNoneVal]

\* data.get("orders", None): the last member with that key
data_get_orders(data) ==
    IF data.kind # "dict" THEN Raises("AttributeError")
    ELSE LET hits == {n \in 1..Len(data.pairs) : data.pairs[n].key = <<ORDERS>>}
         IN  IF hits = {} THEN Returns(PyNoneVal)
             ELSE Returns(PyVal(data.pairs[Max(hits)].kind, data.pairs[Max(hits)].items))

\* a Python string literal in quotes q whose opening quote is before i
RECURSIVE py_string(_, _, _, _)
py_string(s, i, q, acc) ==
    IF i > Len(s) THEN ParseErr("SyntaxError")
    ELSE IF s[i] = q THEN Parsed(i + 1, "str", <<acc>>, <<>>)
    ELSE IF s[i] = NL THEN ParseErr("SyntaxError")
    ELSE IF s[i] = BSL
         THEN IF i + 1 > Len(s) THEN ParseErr("SyntaxError")
              ELSE IF s[i + 1] \in {DQ, SQ, BSL}
                   THEN py_string(s, i + 2, q, Append(acc, s[i + 1]))
              ELSE IF s[i + 1] = NULLW
                   THEN py_string(s, i + 2, q, acc \o <<NL, "ull">>)
              ELSE IF s[i + 1] = NL THEN py_string(s, i + 2, q, acc)
              ELSE py_string(s, i + 2, q, acc \o <<BSL, s[i + 1]>>)
    ELSE py_string(s, i + 1, q, Append(acc, s[i]))

\* adjacent string literals from position i on are one str
RECURSIVE py_strings(_, _, _)
py_strings(s, i, acc) ==
    LET v == py_string(s, i + 1, s[i], <<>>)
    IN  IF v.err # NoExc THEN v
        ELSE LET k == skip_ws(s, v.next)
                 text == acc \o v.items[1]
             IN  IF k <= Len(s) /\ s[k] \in {DQ, SQ} THEN py_strings(s, k, text)
                 ELSE Parsed(k, "str", <<text>>, <<>>)

\* the elements of a list display whose "[" is before i; the text ends with
\* the closing "]" and holds no other "]"
RECURSIVE py_elements(_, _, _)
py_elements(s, i, acc) ==
    LET j == skip_ws(s, i)
    IN  IF j > Len(s) THEN ParseErr("SyntaxError")
        ELSE IF s[j] = RS
             THEN IF j = Len(s) THEN Parsed(j + 1, "list", acc, <<>>)
                  ELSE ParseErr("SyntaxError")
        ELSE LET v == IF s[j] \in {DQ, SQ} THEN py_strings(s, j, <<>>)
                      ELSE IF s[j] \in Digits THEN parse_int(s, j)
                      ELSE ParseErr("ValueError")
             IN  IF v.err # NoExc THEN v
                 ELSE LET k == skip_ws(s, v.next)
                          items == Append(acc, elem_of(v))
                      IN  IF At(s, k, COMMA) THEN py_elements(s, k + 1, items)
                          ELSE IF At(s, k, RS) /\ k = Len(s)
                               THEN Parsed(k + 1, "list", items, <<>>)
                          ELSE ParseErr("SyntaxError")

\* ast.literal_eval of "[" + group + "]", group holding no "]"
literal_eval_list(group) ==
    LET s == group \o <<RS>>
    IN  IF At(s, skip_ws(s, 1), COMMA) THEN ParseErr("SyntaxError")
        ELSE py_elements(s, 1, <<>>)

\* lines 277, 320: re.sub(r",\s*([\}\]])", r"\1", text), from position i on
RECURSIVE remove_trailing_commas(_, _)
remove_trailing_commas(s, i) ==
    IF i > Len(s) THEN <<>>
    ELSE IF s[i] = COMMA /\ skip_ws(s, i + 1) <= Len(s) /\ s[skip_ws(s, i + 1)] \in {RB, RS}
         THEN <<s[skip_ws(s, i + 1)]>> \o remove_trailing_commas(s, skip_ws(s, i + 1) + 1)
         ELSE <<s[i]>> \o remove_trailing_commas(s, i + 1)

\* lines 277-279
fixed_json_of(text) ==
    LET t == remove_trailing_commas(text, 1)
    IN  [i \in 1..Len(t) |-> IF t[i] = SQ THEN DQ ELSE t[i]]

\* str.split("\n") from position i on, cur the line being read
RECURSIVE split_lines(_, _, _)
split_lines(s, i, cur) ==
    IF i > Len(s) THEN <<cur>>
    ELSE IF s[i] = NL THEN <<cur>> \o split_lines(s, i + 1, <<>>)
    ELSE split_lines(s, i + 1, Append(cur, s[i]))

\* "\n".join(lines)
RECURSIVE join_lines(_)
join_lines(ls) ==
    IF Len(ls) = 0 THEN <<>>
    ELSE IF Len(ls) = 1 THEN ls[1]
    ELSE ls[1] \o <<NL>> \o join_lines(Tail(ls))

\* mutant of comment_pos: a backslash is a character like any other, so
\* that an escaped quote closes the string
RECURSIVE comment_pos_no_escape(_, _, _, _)
comment_pos_no_escape(line, i, in_quotes, escape_next) ==
    IF i > Len(line) THEN 0
    ELSE LET q == IF line[i] = DQ THEN ~in_quotes ELSE in_quotes
         IN  IF ~q /\ line[i] = SL /\ At(line, i + 1, SL) THEN i
             ELSE comment_pos_no_escape(line, i + 1, q, FALSE)

\* lines 295-308: the scan of one line from index i (0-based as in the
\* code is i - 1); the result is the index of the comment or 0 for none
RECURSIVE comment_pos(_, _, _, _)
comment_pos(line, i, in_quotes, escape_next) ==
    IF i > Len(line) THEN 0
    ELSE IF escape_next THEN comment_pos(line, i + 1, in_quotes, FALSE)
    ELSE IF line[i] = BSL THEN comment_pos(line, i + 1, in_quotes, TRUE)
    ELSE LET q == IF line[i] = DQ THEN ~in_quotes ELSE in_quotes
         IN  IF ~q /\ line[i] = SL /\ At(line, i + 1, SL) THEN i
             ELSE comment_pos(line, i + 1, q, FALSE)

\* lines 310-315
cleaned_line(line) ==
    LET p == comment_pos(line, 1, FALSE, FALSE)
    IN  IF p > 0 THEN rstrip(SubSeq(line, 1, p - 1)) ELSE line

\* lines 290-320
comment_free_json_of(text) ==
    LET lines == split_lines(text, 1, <<>>)
        cleaned_lines == [n \in 1..Len(lines) |-> cleaned_line(lines[n])]
    IN  remove_trailing_commas(join_lines(cleaned_lines), 1)

\* line 331: the key orders in double or single quotes, a colon and a
\* list; the group is what stands between "[" and the first "]"
bracket_pattern(s) ==
    LET list_at(q) == skip_ws(s, skip_ws(s, q + 3) + 1)
        ok(q) == /\ s[q] \in {DQ, SQ} /\ At(s, q + 1, ORDERS)
                 /\ q + 2 <= Len(s) /\ s[q + 2] \in {DQ, SQ}
                 /\ At(s, skip_ws(s, q + 3), COLON)
                 /\ At(s, list_at(q), LS)
                 /\ Positions(s, RS, list_at(q) + 1) # {}
        starts == {q \in 1..Len(s) : ok(q)}
    IN  IF starts = {} THEN NoMatch
        ELSE LET l == list_at(Min(starts))
             IN  Match(SubSeq(s, l + 1, Min(Positions(s, RS, l + 1)) - 1))

\* lines 329-343: the bracket fallback and the final return None
bracket_fallback(text) ==
    LET bracket_match == bracket_pattern(text)
    IN  IF ~bracket_match.found THEN Returns(PyNoneVal)
        ELSE LET evaluated == literal_eval_list(strip(bracket_match.group))
             IN  IF evaluated.err = NoExc THEN Returns(PyList(evaluated.items))
                 ELSE Returns(PyNoneVal)

\* mutant of decode_pass: an object without the key orders sends the call
\* on to the following pass, as a text that does not decode
decode_pass_or_on(text) ==
    LET data == json_loads(text)
    IN  IF data.err = JSONDecodeError THEN [exc |-> "next", val |-> PyNoneVal]
        ELSE IF data.err # NoExc THEN Raises(data.err)
        ELSE IF data_get_orders(data) = Returns(PyNoneVal)
        THEN [exc |-> "next", val |-> PyNoneVal]
        ELSE data_get_orders(data)

\* one decode attempt (lines 269-270, 281-283, 322-324): the value
\* returned, the exception that leaves the function, or "next" when
\* json.JSONDecodeError was caught and the following pass runs
NextPass == [exc |-> "next", val |-> PyNoneVal]
decode_pass(text) ==
    LET data == json_loads(text)
    IN  IF data.err = JSONDecodeError THEN NextPass
        ELSE IF data.err # NoExc THEN Raises(data.err)
        ELSE data_get_orders(data)

\* lines 206-249: the first pattern that matches
capture(s) ==
    IF pattern(s).found THEN pattern(s)
    ELSE IF pattern_alt(s).found THEN pattern_alt(s)
    ELSE IF pattern_asterisk(s).found THEN pattern_asterisk(s)
    ELSE IF code_fence_pattern(s).found THEN code_fence_pattern(s)
    ELSE IF code_fence_plain(s).found THEN code_fence_plain(s)
    ELSE bare_json_pattern(s)

\* lines 268-343 on a json_text
decode(text) ==
    IF decode_pass(text) # NextPass THEN decode_pass(text)
    ELSE IF decode_pass(fixed_json_of(text)) # NextPass
         THEN decode_pass(fixed_json_of(text))
    ELSE IF decode_pass(comment_free_json_of(text)) # NextPass
         THEN decode_pass(comment_free_json_of(text))
    ELSE bracket_fallback(text)

\* lines 196-343
_extract_moves(raw) ==
    LET text == json_text_of(capture(raw))
    IN  IF text = PyNone \/ text = <<>> THEN Returns(PyNoneVal)
        ELSE decode(text)

(***************************************************************************)
(* The call of _extract_moves, one action per block of the function        *)
(***************************************************************************)
Pending == [exc |-> "pending", val |-> PyNoneVal]

\* mutant of Searched: the next pattern is tried whether this one matched
\* or not
Searched_and_on(m, next) ==
    /\ matches' = m
    /\ xpc' = next
    /\ UNCHANGED <<raw_response, json_text, xret>>
    /\ UNCHANGED not_xvars

\* after a search: on to the capture handling when it matched, to the next
\* pattern when it did not
Searched(m, next) ==
    /\ matches' = m
    /\ xpc' = IF m.found THEN "captured" ELSE next
    /\ UNCHANGED <<raw_response, json_text, xret>>
    /\ UNCHANGED not_xvars

\* lines 206-208
Try_pattern == xpc = "pattern" /\ Searched(pattern(raw_response), "pattern_alt")
\* lines 210-216
Try_pattern_alt == xpc = "pattern_alt" /\ Searched(pattern_alt(raw_response), "pattern_asterisk")
\* lines 218-222
Try_pattern_asterisk ==
    xpc = "pattern_asterisk" /\ Searched(pattern_asterisk(raw_response), "code_fence_pattern")
\* lines 228-232
Try_code_fence_pattern ==
    xpc = "code_fence_pattern" /\ Searched(code_fence_pattern(raw_response), "code_fence_plain")
\* lines 235-239
Try_code_fence_plain ==
    xpc = "code_fence_plain" /\ Searched(code_fence_plain(raw_response), "bare_json_pattern")
\* lines 242-249: after the last pattern the capture handling runs anyway
Try_bare_json_pattern ==
    /\ xpc = "bare_json_pattern"
    /\ matches' = bare_json_pattern(raw_response)
    /\ xpc' = "captured"
    /\ UNCHANGED <<raw_response, json_text, xret>>
    /\ UNCHANGED not_xvars

\* how a decode attempt moves the call on
Attempt(r, next) ==
    /\ xret' = IF r = NextPass THEN xret ELSE r
    /\ xpc' = IF r = NextPass THEN next
              ELSE IF r.exc = NoExc THEN "returned" ELSE "raised"

\* lines 252-266: json_text, and return None without one
Take_json_text ==
    /\ xpc = "captured"
    /\ LET t == json_text_of(matches)
       IN  /\ json_text' = t
           /\ IF t = PyNone \/ t = <<>>
              THEN xret' = Returns(PyNoneVal) /\ xpc' = "returned"
              ELSE xret' = xret /\ xpc' = "direct"
    /\ UNCHANGED <<raw_response, matches>>
    /\ UNCHANGED not_xvars

\* lines 269-272
Decode_direct ==
    /\ xpc = "direct"
    /\ Attempt(decode_pass(json_text), "fixed")
    /\ UNCHANGED <<raw_response, matches, json_text>>
    /\ UNCHANGED not_xvars

\* lines 275-285
Decode_fixed ==
    /\ xpc = "fixed"
    /\ Attempt(decode_pass(fixed_json_of(json_text)), "comment_free")
    /\ UNCHANGED <<raw_response, matches, json_text>>
    /\ UNCHANGED not_xvars

\* lines 288-326
Decode_comment_free ==
    /\ xpc = "comment_free"
    /\ Attempt(decode_pass(comment_free_json_of(json_text)), "bracket")
    /\ UNCHANGED <<raw_response, matches, json_text>>
    /\ UNCHANGED not_xvars

\* lines 331-343
Bracket_fallback ==
    /\ xpc = "bracket"
    /\ xret' = bracket_fallback(json_text)
    /\ xpc' = "returned"
    /\ UNCHANGED <<raw_response, matches, json_text>>
    /\ UNCHANGED not_xvars

NextExtract ==
    \/ Try_pattern
    \/ Try_pattern_alt
    \/ Try_pattern_asterisk
    \/ Try_code_fence_pattern
    \/ Try_code_fence_plain
    \/ Try_bare_json_pattern
    \/ Take_json_text
    \/ Decode_direct
    \/ Decode_fixed
    \/ Decode_comment_free
    \/ Bracket_fallback

(***************************************************************************)
(* The response texts of the model: a block between a lead and a tail      *)
(***************************************************************************)
\* most elements in an orders list of a response text
MaxOrders == 2

\* elements as they are written: "A PAR H", 'A PAR H', "A PAR H\"//meta"
\* and "A PAR H, ]"
ElementTexts ==
    { <<DQ, W_APARH, DQ>>,
      <<SQ, W_APARH, SQ>>,
      <<DQ, W_APARH, BSL, DQ, SL, SL, W_META, DQ>>,
      <<DQ, W_APARH, COMMA, SP, RS, DQ>> }

RECURSIVE joined(_)
joined(es) ==
    IF Len(es) = 0 THEN <<>>
    ELSE IF Len(es) = 1 THEN es[1]
    ELSE es[1] \o <<COMMA, SP>> \o joined(Tail(es))

LineComment == <<SP, SL, SL, W_META, NL>>

\* a list, with or without a trailing comma and a comment before its "]"
ListTexts ==
    { <<LS>> \o joined(es) \o (IF tc THEN <<COMMA>> ELSE <<>>)
             \o (IF cm THEN LineComment ELSE <<>>) \o <<RS>> :
        es \in SeqsUpTo(ElementTexts, MaxOrders), tc \in BOOLEAN, cm \in BOOLEAN }

ValueTexts == ListTexts \cup { <<DQ, W_APARH, DQ>>, <<NULLW>>, <<INT1>>, <<LONGINT>> }

KeyTexts == { <<DQ, ORDERS, DQ>>, <<SQ, ORDERS, SQ>>, <<DQ, W_META, DQ>> }

MemberTexts == { k \o <<COLON, SP>> \o v : k \in KeyTexts, v \in ValueTexts }

\* { member } with or without a trailing comma, and {{ member }}
BlockTexts ==
    { <<LB>> \o m \o (IF oc THEN <<COMMA>> ELSE <<>>) \o <<RB>> :
        m \in MemberTexts, oc \in BOOLEAN }
    \cup
    { <<LB, LB, DQ, ORDERS, DQ, COLON, SP, LS>> \o joined(es) \o <<RS, RB, RB>> :
        es \in SeqsUpTo(ElementTexts, MaxOrders) }

MarkerLead == <<MARKER, COLON, SP>>
OtherBlock == <<LB, DQ, W_META, DQ, COLON, SP, INT1, RB>>
OtherOrdersBlock == <<LB, DQ, ORDERS, DQ, COLON, SP, LS, DQ, W_FEDIH, DQ, RS, RB>>

\* the frames in which the marker block stands beside an unrelated bare block
BesideFrames ==
    { [lead |-> OtherBlock \o <<SP>> \o MarkerLead, tail |-> <<>>],
      [lead |-> MarkerLead, tail |-> <<SP>> \o OtherBlock],
      [lead |-> MarkerLead, tail |-> <<SP>> \o OtherOrdersBlock] }

Frames ==
    { [lead |-> <<>>, tail |-> <<>>],
      [lead |-> <<W_META, SP>>, tail |-> <<SP, W_META>>],
      [lead |-> MarkerLead, tail |-> <<>>],
      [lead |-> <<MARKER, COLON, NL>>, tail |-> <<NL>>],
      [lead |-> <<MARKER, SP>>, tail |-> <<NL>>],
      [lead |-> <<STAR, STAR, MARKER, COLON, STAR, STAR, NL>>, tail |-> <<>>],
      [lead |-> <<FENCE, JSONW, NL>>, tail |-> <<NL, FENCE>>],
      [lead |-> <<FENCE, NL>>, tail |-> <<NL, FENCE>>] }
    \cup BesideFrames

ResponseTexts == { f.lead \o b \o f.tail : f \in Frames, b \in BlockTexts }

InitExtract ==
    /\ AgentIdle
    /\ ScanIdle
    /\ ReplyIdle
    /\ OrdersIdle
    /\ FilterIdle
    /\ LoadIdle
    /\ raw_response \in ResponseTexts
    /\ xpc = "pattern"
    /\ matches = NoMatch
    /\ json_text = PyNone
    /\ xret = Pending

SpecExtract == InitExtract /\ [][NextExtract]_vars

TypeOKExtract ==
    /\ xpc \in {"pattern", "pattern_alt", "pattern_asterisk", "code_fence_pattern",
                "code_fence_plain", "bare_json_pattern", "captured", "direct", "fixed",
                "comment_free", "bracket", "returned", "raised"}
    /\ matches.found \in BOOLEAN
    /\ xret.exc \in {"pending", NoExc, "ValueError", "AttributeError"}
    /\ xret.val.kind \in {"none", "list", "str", "int", "dict"}
    /\ xpc \in {"returned", "raised"} => xret = _extract_moves(raw_response)

(***************************************************************************)
(* Vocabulary of the extractor claims                                      *)
(***************************************************************************)
ExtractEnded == xpc \in {"returned", "raised"}

endswith(s, t) == Len(t) <= Len(s) /\ SubSeq(s, Len(s) - Len(t) + 1, Len(s)) = t

\* raw_response is the frame f around a block, and that block
InFrame(f) ==
    /\ Len(f.lead) + Len(f.tail) < Len(raw_response)
    /\ startswith(raw_response, f.lead)
    /\ endswith(raw_response, f.tail)
BlockIn(f) == SubSeq(raw_response, Len(f.lead) + 1, Len(raw_response) - Len(f.tail))

\* the orders of the marker-prefixed block: what the block yields when it
\* stands alone after the marker
OrdersOfMarkerBlock(f) == _extract_moves(MarkerLead \o BlockIn(f))

\* JSON string boundaries in s: the state after the first k characters
RECURSIVE lex(_, _)
lex(s, k) ==
    IF k = 0 THEN "out"
    ELSE LET before == lex(s, k - 1)
         IN  IF before = "out" THEN (IF s[k] = DQ THEN "in" ELSE "out")
             ELSE IF before = "escape" THEN "in"
             ELSE IF s[k] = BSL THEN "escape"
             ELSE IF s[k] = DQ THEN "out"
             ELSE "in"
\* the character at position k lies outside every double-quoted string
Outside(s, k) == lex(s, k - 1) = "out"

\* the commas of s that stand, outside strings, before a closing bracket
TrailingCommas(s) ==
    {i \in 1..Len(s) : /\ s[i] = COMMA /\ Outside(s, i)
                       /\ skip_ws(s, i + 1) <= Len(s)
                       /\ s[skip_ws(s, i + 1)] \in {RB, RS}}
Without(s, i) == SubSeq(s, 1, i - 1) \o SubSeq(s, i + 1, Len(s))

\* the block captured in s decodes in the first pass
DecodesDirectly(s) ==
    LET t == json_text_of(capture(s))
    IN  t # PyNone /\ t # <<>> /\ json_loads(t).err = NoExc

\* a string of s holds a comma
CommaInString(s) == \E i \in 1..Len(s) : s[i] = COMMA /\ ~Outside(s, i)

\* C12: when the text holds a marker-prefixed block and an unrelated bare
\* block before or after it, the call returns the orders of the
\* marker-prefixed block.
C12_CascadeOrdering ==
    ExtractEnded =>
        \A f \in BesideFrames : InFrame(f) => xret = OrdersOfMarkerBlock(f)

\* what holds of C12: an unrelated block BEFORE the marker is never preferred
C12_BlockBeforeMarker ==
    ExtractEnded =>
        \A f \in BesideFrames :
            (InFrame(f) /\ f.tail = <<>>) => xret = OrdersOfMarkerBlock(f)

\* an unrelated block after the marker block, and yet the marker block's
\* orders returned
C12_BlockAfterReached ==
    /\ xpc = "returned"
    /\ \E f \in BesideFrames :
          /\ InFrame(f) /\ f.tail # <<>>
          /\ xret = OrdersOfMarkerBlock(f)
          /\ xret.val.kind = "list" /\ xret.val.items # <<>>

\* C13: no response text makes _extract_moves raise; the call ends by
\* returning a payload or None.
C13_ExtractorNeverRaises == xpc # "raised"

\* what holds of C13: only an integer literal beyond the digit limit raises
C13_RaisesOnlyOnLongInt ==
    xpc = "raised" =>
        /\ xret.exc = "ValueError"
        /\ \E i \in 1..Len(raw_response) : raw_response[i] = LONGINT

\* C14: a trailing comma inserted before a closing bracket or brace of a
\* block that decodes directly does not change the result: the call on the
\* text with the comma returns what it returns on the text without it.
C14_RepairTolerance ==
    ExtractEnded =>
        \A i \in TrailingCommas(raw_response) :
            DecodesDirectly(Without(raw_response, i))
                => xret = _extract_moves(Without(raw_response, i))

\* what holds of C14: blocks whose strings hold no comma
C14_OnStringsWithoutComma ==
    (ExtractEnded /\ ~CommaInString(raw_response)) =>
        \A i \in TrailingCommas(raw_response) :
            DecodesDirectly(Without(raw_response, i))
                => xret = _extract_moves(Without(raw_response, i))

\* a trailing comma repaired: the result of the comma-free text, a list
C14_RepairReached ==
    /\ xpc = "returned"
    /\ \E i \in TrailingCommas(raw_response) :
          /\ DecodesDirectly(Without(raw_response, i))
          /\ xret = _extract_moves(Without(raw_response, i))
          /\ xret.val.kind = "list" /\ xret.val.items # <<>>

-----------------------------------------------------------------------------
(***************************************************************************)
(* The comment-removal pass of _extract_moves (lines 290-320) on its own   *)
(***************************************************************************)
MaxText == 6

\* the characters the scan of lines 295-308 tells apart, and the line end
ScanChars == {DQ, BSL, SL, SP, NL, COMMA, RS}

\* every text of at most MaxText of these characters
ScanTexts == UNION {[1..n -> ScanChars] : n \in 0..MaxText}

InitScan ==
    /\ AgentIdle
    /\ ReplyIdle
    /\ OrdersIdle
    /\ FilterIdle
    /\ LoadIdle
    /\ ExtractIdle
    /\ scanned \in ScanTexts
    /\ comment_free_json = <<>>
    /\ spc = "ready"

\* lines 290-320: the text is split, each line is cut at its comment, the
\* lines are joined and the commas before a closing bracket are removed
Remove_comments ==
    /\ spc = "ready"
    /\ comment_free_json' = comment_free_json_of(scanned)
    /\ spc' = "done"
    /\ UNCHANGED <<scanned, not_svars>>

NextScan == Remove_comments

SpecScan == InitScan /\ [][NextScan]_vars

TypeOKScan ==
    /\ spc \in {"ready", "done"}
    /\ scanned \in ScanTexts
    /\ Len(comment_free_json) <= Len(scanned)

(***************************************************************************)
(* Vocabulary of the comment claim                                         *)
(***************************************************************************)
\* the comment markers of a line: the positions of two slashes that stand
\* outside every double-quoted string
MarkersOutside(line) ==
    {k \in 1..(Len(line) - 1) : line[k] = SL /\ line[k + 1] = SL /\ Outside(line, k)}

\* the line as it is to be kept: cut at its first comment marker, the
\* blanks before the marker dropped, or whole when it has no marker
Kept(line) ==
    IF MarkersOutside(line) = {} THEN line
    ELSE rstrip(SubSeq(line, 1, Min(MarkersOutside(line)) - 1))

\* the lines of a text, by the positions of its line ends
LineEnds(t) == {k \in 1..Len(t) : t[k] = NL}
LinesOf(t) ==
    LET ends == LineEnds(t)
        start(n) == IF n = 1 THEN 1
                    ELSE 1 + CHOOSE k \in ends : Cardinality({e \in ends : e <= k}) = n - 1
        stop(n) == IF n = Cardinality(ends) + 1 THEN Len(t)
                   ELSE (CHOOSE k \in ends : Cardinality({e \in ends : e <= k}) = n) - 1
    IN  [n \in 1..(Cardinality(ends) + 1) |-> SubSeq(t, start(n), stop(n))]

\* a backslash outside every string, where no JSON text has one, before
\* the first comment marker of the line
StrayBackslash(line) ==
    \E k \in 1..Len(line) :
        /\ line[k] = BSL /\ Outside(line, k)
        /\ \A m \in MarkersOutside(line) : k < m

\* the strings of a line: <<a, b>> with the opening quote at a and the
\* closing quote at b
StringsOf(line) ==
    {<<a, b>> \in (1..Len(line)) \X (1..Len(line)) :
        /\ a < b /\ line[a] = DQ /\ Outside(line, a)
        /\ lex(line, b) = "out"
        /\ \A k \in a..(b - 1) : lex(line, k) # "out"}

\* C15: the comment-removal pass cuts a line at two slashes only when they
\* stand outside every quoted string: each line handed to the decoder is
\* the line up to its first comment marker outside a string, and a line
\* without such a marker is handed over whole, so that a string holding
\* two slashes, also after an escaped quote, is kept.
C15_CommentInStringSafety ==
    spc = "done" =>
        LET lines == LinesOf(scanned)
        IN  (\A n \in 1..Len(lines) : ~StrayBackslash(lines[n]))
                => comment_free_json =
                    remove_trailing_commas(join_lines([n \in 1..Len(lines) |-> Kept(lines[n])]), 1)

\* a string that holds an escaped quote and then two slashes, handed over
\* whole
C15_EscapedQuoteReached ==
    /\ spc = "done"
    /\ scanned = <<DQ, BSL, DQ, SL, SL, DQ>>
    /\ StringsOf(scanned) = {<<1, 6>>}
    /\ comment_free_json = scanned

-----------------------------------------------------------------------------
(***************************************************************************)
(* BaseModelClient.get_conversation_reply (lines 525-683)                  *)
(*                                                                         *)
(* A decoded candidate is [kind, message_type, content, recipient]: kind   *)
(* is "dict" for a JSON object and the name of another type otherwise;     *)
(* message_type is "absent" when the object has no such key, "private",    *)
(* "public", or "other" for any other value; content and recipient tell    *)
(* whether the object has that key.  A block of text found by the          *)
(* fallback search is [outcome, msg]: what json.loads does on it, NoExc    *)
(* with the object decoded or the name of the exception raised.            *)
(***************************************************************************)
MaxMessages == 2

candidate(kind, message_type, content, recipient) ==
    [kind |-> kind, message_type |-> message_type,
     content |-> content, recipient |-> recipient]

\* a decoded value that is no dict
NonDict == candidate("int", "absent", FALSE, FALSE)

\* the objects json.loads can produce, by the keys the validation reads
Dicts ==
    {candidate("dict", t, c, r) :
        t \in {"absent", "private", "public", "other"}, c \in BOOLEAN, r \in BOOLEAN}

\* the outcomes of json.loads on a block that starts with a brace: an
\* object, a JSONDecodeError, or a ValueError that is no JSONDecodeError
\* (an integer literal beyond the digit limit)
Blocks ==
    {[outcome |-> NoExc, msg |-> d] : d \in Dicts}
    \cup {[outcome |-> e, msg |-> NonDict] : e \in {"JSONDecodeError", "ValueError"}}

\* mutant of accepted: a private message is accepted without a recipient
accepted_without_recipient(msg) ==
    msg.kind = "dict" /\ msg.message_type # "absent" /\ msg.content

\* lines 644-647: the test of one candidate
accepted(msg) ==
    /\ msg.kind = "dict" /\ msg.message_type # "absent" /\ msg.content
    /\ ~(msg.message_type = "private" /\ ~msg.recipient)

\* lines 642-654: the validation loop from candidate i on
RECURSIVE validate(_, _, _)
validate(parsed, i, validated_messages) ==
    IF i > Len(parsed) THEN validated_messages
    ELSE validate(parsed, i + 1,
                  IF accepted(parsed[i]) THEN Append(validated_messages, parsed[i])
                  ELSE validated_messages)

\* lines 627-637: the blocks decoded one by one from block i on; a
\* JSONDecodeError is noted and the block skipped, another exception leaves
\* the loop
RECURSIVE decode_blocks(_, _, _, _)
decode_blocks(blocks, i, parsed, error_occurred) ==
    IF i > Len(blocks)
    THEN [exc |-> NoExc, parsed |-> parsed, error_occurred |-> error_occurred]
    ELSE IF blocks[i].outcome = NoExc
    THEN decode_blocks(blocks, i + 1, Append(parsed, blocks[i].msg), error_occurred)
    ELSE IF blocks[i].outcome = "JSONDecodeError"
    THEN decode_blocks(blocks, i + 1, parsed, TRUE)
    ELSE [exc |-> blocks[i].outcome, parsed |-> parsed, error_occurred |-> error_occurred]

\* line 669: the status of a call that ended in the handler of line 667
failure_status(e) ==
    CASE e = "ValueError" -> "Failure: Exception (ValueError)"
      [] e = "RuntimeError" -> "Failure: Exception (RuntimeError)"
      [] OTHER -> "Failure: Exception"

(* Inputs *)
MessageLists == UNION {[1..n -> Dicts \cup {NonDict}] : n \in 1..MaxMessages}
BlockLists == UNION {[1..n -> Blocks] : n \in 0..MaxMessages}
LogPaths == {<<>>, <<"l", "o", "g">>}

\* What the call meets.  provider is the outcome of building the prompt,
\* awaiting the provider and formatting (returned, raised an Exception, or
\* cancelled); direct is the outcome of json.loads on the whole response
\* (line 589): a list with its items, another value, or an exception;
\* unformatted is config.USE_UNFORMATTED_PROMPTS; found is what the
\* searches of lines 604-624 find in raw_response, and search_raises tells
\* that json.loads on the fenced text (line 616) raises a ValueError;
\* log_file_path is empty or not.

\* the provider call raises or is cancelled
ProviderFailures ==
    [provider : {"RuntimeError", "CancelledError"}, direct : {"JSONDecodeError"},
     items : {<<>>}, unformatted : {FALSE}, found : {<<>>}, search_raises : {FALSE},
     log_file_path : LogPaths]

\* the whole response is a list with items
DirectLists ==
    [provider : {NoExc}, direct : {"list"}, items : MessageLists,
     unformatted : BOOLEAN, found : {<<>>}, search_raises : {FALSE},
     log_file_path : LogPaths]

\* json.loads on the whole response raises a ValueError
DirectRaises ==
    [provider : {NoExc}, direct : {"ValueError"}, items : {<<>>},
     unformatted : BOOLEAN, found : {<<>>}, search_raises : {FALSE},
     log_file_path : LogPaths]

\* the response is the empty list; as it stands it holds no block
EmptyLists ==
    [provider : {NoExc}, direct : {"list"}, items : {<<>>},
     unformatted : {FALSE}, found : {<<>>}, search_raises : {FALSE},
     log_file_path : LogPaths]

\* the formatter gave the empty list; the searches run on the provider's
\* text
FormattedEmptyLists ==
    [provider : {NoExc}, direct : {"list"}, items : {<<>>},
     unformatted : {TRUE}, found : BlockLists, search_raises : BOOLEAN,
     log_file_path : LogPaths]

\* the whole response is no list or does not decode
SearchedReplies ==
    [provider : {NoExc}, direct : {"other", "JSONDecodeError"}, items : {<<>>},
     unformatted : BOOLEAN, found : BlockLists, search_raises : BOOLEAN,
     log_file_path : LogPaths]

IsReply(r) ==
    \/ r \in ProviderFailures
    \/ r \in DirectLists
    \/ r \in DirectRaises
    \/ r \in EmptyLists
    \/ r \in FormattedEmptyLists
    \/ r \in SearchedReplies

InitReply ==
    /\ AgentIdle
    /\ OrdersIdle
    /\ FilterIdle
    /\ LoadIdle
    /\ ExtractIdle
    /\ ScanIdle
    /\ IsReply(llm_reply)
    /\ json_blocks = <<>>
    /\ parsed_messages = <<>>
    /\ json_decode_error_occurred = FALSE
    /\ success_status = "Failure: Initialized"
    /\ messages_to_return = <<>>
    /\ raising = NoExc
    /\ log_records = <<>>
    /\ mpc = "ready"

\* lines 547-581: the prompt is built, the provider awaited and the
\* response formatted; an exception goes to the handler of line 667 and a
\* cancellation, which is no Exception, to the finally clause
Ask_provider ==
    /\ mpc = "ready"
    /\ raising' = llm_reply.provider
    /\ mpc' = CASE llm_reply.provider = NoExc -> "asked"
                [] llm_reply.provider = "CancelledError" -> "finally"
                [] OTHER -> "except"
    /\ UNCHANGED <<llm_reply, json_blocks, parsed_messages, json_decode_error_occurred,
                   success_status, messages_to_return, log_records, not_mvars>>

\* lines 583-599: the whole response decoded
Decode_formatted ==
    /\ mpc = "asked"
    /\ parsed_messages' = IF llm_reply.direct = "list" THEN llm_reply.items ELSE <<>>
    /\ raising' = IF llm_reply.direct = "ValueError" THEN "ValueError" ELSE NoExc
    /\ mpc' = IF llm_reply.direct = "ValueError" THEN "except"
              ELSE IF llm_reply.direct = "list" /\ llm_reply.items # <<>> THEN "parsed"
              ELSE "search"
    /\ UNCHANGED <<llm_reply, json_blocks, json_decode_error_occurred,
                   success_status, messages_to_return, log_records, not_mvars>>

\* lines 602-624: parsed_messages is empty and the blocks are searched
Search_blocks ==
    /\ mpc = "search"
    /\ json_blocks' = IF llm_reply.search_raises THEN <<>> ELSE llm_reply.found
    /\ raising' = IF llm_reply.search_raises THEN "ValueError" ELSE NoExc
    /\ mpc' = IF llm_reply.search_raises THEN "except" ELSE "blocks"
    /\ UNCHANGED <<llm_reply, parsed_messages, json_decode_error_occurred,
                   success_status, messages_to_return, log_records, not_mvars>>

\* lines 626-637: the blocks decoded
Decode_blocks ==
    /\ mpc = "blocks"
    /\ LET d == decode_blocks(json_blocks, 1, parsed_messages, json_decode_error_occurred)
       IN  /\ parsed_messages' = d.parsed
           /\ json_decode_error_occurred' = d.error_occurred
           /\ raising' = d.exc
           /\ mpc' = IF d.exc = NoExc THEN "parsed" ELSE "except"
    /\ UNCHANGED <<llm_reply, json_blocks, success_status, messages_to_return,
                   log_records, not_mvars>>

\* lines 639-664: the candidates validated, the status and the list to
\* return set
Validate ==
    /\ mpc = "parsed"
    /\ LET validated_messages == IF parsed_messages = <<>> THEN <<>>
                                 ELSE validate(parsed_messages, 1, <<>>)
       IN  /\ parsed_messages' = validated_messages
           /\ messages_to_return' = validated_messages
           /\ success_status' = IF validated_messages # <<>>
                                THEN "Success: Messages extracted"
                                ELSE "Success: No valid messages"
    /\ mpc' = "finally"
    /\ UNCHANGED <<llm_reply, json_blocks, json_decode_error_occurred, raising,
                   log_records, not_mvars>>

\* lines 667-670: the handler of every Exception
Handle_exception ==
    /\ mpc = "except"
    /\ success_status' = failure_status(raising)
    /\ messages_to_return' = <<>>
    /\ raising' = NoExc
    /\ mpc' = "finally"
    /\ UNCHANGED <<llm_reply, json_blocks, parsed_messages, json_decode_error_occurred,
                   log_records, not_mvars>>

\* mutant of Finally_return: a finally clause without the return of line
\* 683, which lets an exception still in flight leave the call
Finally_reraise ==
    /\ mpc = "finally"
    /\ log_records' = IF llm_reply.log_file_path # <<>>
                      THEN Append(log_records, success_status) ELSE log_records
    /\ raising' = raising
    /\ mpc' = IF raising = NoExc THEN "returned" ELSE "raised"
    /\ UNCHANGED <<llm_reply, json_blocks, parsed_messages, json_decode_error_occurred,
                   success_status, messages_to_return, not_mvars>>

\* lines 671-683: the record logged when there is a log file, and the
\* return, which also ends an exception still in flight
Finally_return ==
    /\ mpc = "finally"
    /\ log_records' = IF llm_reply.log_file_path # <<>>
                      THEN Append(log_records, success_status) ELSE log_records
    /\ raising' = NoExc
    /\ mpc' = "returned"
    /\ UNCHANGED <<llm_reply, json_blocks, parsed_messages, json_decode_error_occurred,
                   success_status, messages_to_return, not_mvars>>

NextReply ==
    \/ Ask_provider
    \/ Decode_formatted
    \/ Search_blocks
    \/ Decode_blocks
    \/ Validate
    \/ Handle_exception
    \/ Finally_return

SpecReply == InitReply /\ [][NextReply]_vars

\* the call as the event loop runs it: a coroutine whose awaited provider
\* call has completed, failed or been cancelled is resumed, and between
\* awaits its statements run to the end
SpecReplyLive == InitReply /\ [][NextReply]_vars /\ WF_vars(NextReply)

TypeOKReply ==
    /\ IsReply(llm_reply)
    /\ mpc \in {"ready", "asked", "search", "blocks", "parsed", "except", "finally",
                "returned"}
    /\ raising \in {NoExc, "ValueError", "RuntimeError", "CancelledError"}
    /\ json_decode_error_occurred \in BOOLEAN
    /\ Len(parsed_messages) <= MaxMessages
    /\ Len(messages_to_return) <= MaxMessages
    /\ Len(log_records) <= 1

(***************************************************************************)
(* Vocabulary of the message claims                                        *)
(***************************************************************************)
\* the candidates decoded from the response: the items of the list the
\* whole response decodes to, or else the objects of the blocks that decode
RECURSIVE DecodedBlocks(_)
DecodedBlocks(blocks) ==
    IF blocks = <<>> THEN <<>>
    ELSE IF Head(blocks).outcome = NoExc
    THEN <<Head(blocks).msg>> \o DecodedBlocks(Tail(blocks))
    ELSE DecodedBlocks(Tail(blocks))

\* the blocks were found and are decoded one by one
BlocksDecoded ==
    /\ llm_reply.provider = NoExc
    /\ llm_reply.direct \in {"list", "other", "JSONDecodeError"}
    /\ llm_reply.items = <<>>
    /\ ~llm_reply.search_raises

\* the blocks json.loads is called on: those up to the first block on
\* which it raises an exception that is no JSONDecodeError
RECURSIVE BlocksReached(_)
BlocksReached(blocks) ==
    IF blocks = <<>> THEN <<>>
    ELSE IF Head(blocks).outcome = "ValueError" THEN <<Head(blocks)>>
    ELSE <<Head(blocks)>> \o BlocksReached(Tail(blocks))

DecodedCandidates ==
    IF llm_reply.direct = "list" /\ llm_reply.items # <<>> THEN llm_reply.items
    ELSE IF BlocksDecoded THEN DecodedBlocks(BlocksReached(llm_reply.found))
    ELSE <<>>

\* an object with message_type and content, and with recipient when it is
\* private
WellFormedMessage(c) ==
    /\ c \in Dicts
    /\ c.message_type \in {"private", "public", "other"}
    /\ c.content
    /\ c.message_type = "private" => c.recipient

\* the subsequence of the well-formed candidates, in their order
RECURSIVE WellFormedOf(_)
WellFormedOf(cs) ==
    IF cs = <<>> THEN <<>>
    ELSE IF WellFormedMessage(Head(cs)) THEN <<Head(cs)>> \o WellFormedOf(Tail(cs))
    ELSE WellFormedOf(Tail(cs))

\* the call has returned and its parsing raised nothing
ReturnedParsed ==
    /\ mpc = "returned"
    /\ success_status \in {"Success: Messages extracted", "Success: No valid messages"}

\* C16: the list a call returns is the subsequence, in extraction order,
\* of the decoded candidates that are objects with message_type and
\* content and, when private, recipient; every other candidate is dropped.
C16_ReturnedIsValidSubsequence ==
    mpc = "returned" => messages_to_return = WellFormedOf(DecodedCandidates)

\* what holds of C16: the calls whose parsing raised nothing
C16_MessageValidation ==
    ReturnedParsed => messages_to_return = WellFormedOf(DecodedCandidates)

\* a private message without recipient dropped and the public message
\* after it returned
C16_PrivateWithoutRecipientDropped ==
    /\ ReturnedParsed
    /\ DecodedCandidates = <<candidate("dict", "private", TRUE, FALSE),
                             candidate("dict", "public", TRUE, FALSE)>>
    /\ messages_to_return = <<candidate("dict", "public", TRUE, FALSE)>>

(***************************************************************************)
(* Vocabulary of the claims on the order of the extractor's steps          *)
(***************************************************************************)
\* the places of the call where the six strategies are attempted, in the
\* order of the claim
StrategyAt ==
    <<"pattern", "pattern_alt", "pattern_asterisk", "code_fence_pattern",
      "code_fence_plain", "bare_json_pattern">>

\* what strategy k finds in raw_response
Found(k) ==
    CASE k = 1 -> pattern(raw_response)
      [] k = 2 -> pattern_alt(raw_response)
      [] k = 3 -> pattern_asterisk(raw_response)
      [] k = 4 -> code_fence_pattern(raw_response)
      [] k = 5 -> code_fence_plain(raw_response)
      [] k = 6 -> bare_json_pattern(raw_response)

\* strategy k captures a block of raw_response
Captures(k) == Found(k).found
\* the call is about to attempt strategy k
Attempting(k) == xpc = StrategyAt[k]
\* the strategies are over
PastStrategies == xpc # "idle" /\ \A k \in 1..Len(StrategyAt) : ~Attempting(k)
\* the first strategy that captures, 0 when none does
RECURSIVE FirstFrom(_)
FirstFrom(k) ==
    IF k > Len(StrategyAt) THEN 0
    ELSE IF Captures(k) THEN k
    ELSE FirstFrom(k + 1)
FirstCapturing == FirstFrom(1)

\* the captured block decodes in no pass and the bracket fallback finds
\* no list
FailsEveryPass(text) ==
    /\ json_loads(text).err = JSONDecodeError
    /\ json_loads(fixed_json_of(text)).err = JSONDecodeError
    /\ json_loads(comment_free_json_of(text)).err = JSONDecodeError
    /\ bracket_fallback(text) = Returns(PyNoneVal)

\* C21: the six strategies are tried in their fixed order, a strategy is
\* attempted only when no earlier one captured, and once a strategy has
\* captured no strategy is attempted any more: past the strategies the
\* block in hand is that of the first strategy that captures, whatever the
\* decode passes make of it.
C21_FirstCaptureWins ==
    /\ \A k \in 1..Len(StrategyAt) :
          Attempting(k) => (~matches.found /\ \A j \in 1..(k - 1) : ~Captures(j))
    /\ PastStrategies =>
          LET first == FirstCapturing
          IN  /\ matches.found <=> first # 0
              /\ first # 0 => matches = Found(first)

\* the call has returned None on a block of the first strategy that fails
\* every pass, though a later strategy captures a block too
C21_FailedBlockKept ==
    /\ xpc = "returned"
    /\ xret = Returns(PyNoneVal)
    /\ FirstCapturing = 1
    /\ json_text # PyNone /\ FailsEveryPass(json_text)
    /\ \E k \in 2..Len(StrategyAt) : Captures(k)

\* the text decoded in pass k: the block as captured, repaired, and with
\* its comments removed
PassText(k) ==
    CASE k = 1 -> json_text
      [] k = 2 -> fixed_json_of(json_text)
      [] k = 3 -> comment_free_json_of(json_text)
\* the places of the call where the passes run, the bracket fallback last
PassAt == <<"direct", "fixed", "comment_free", "bracket">>
\* pass k decodes its text, and fails to decode it
PassDecodes(k) == json_loads(PassText(k)).err = NoExc
PassFails(k) == json_loads(PassText(k)).err = JSONDecodeError
\* the first pass from k on that does not fail, 4 when all three fail
RECURSIVE FirstPassFrom(_)
FirstPassFrom(k) ==
    IF k > 3 THEN 4
    ELSE IF ~PassFails(k) THEN k
    ELSE FirstPassFrom(k + 1)
\* the value under the key orders of the object pass k decodes, None
\* when the object has no such key
OrdersOfPass(k) == data_get_orders(json_loads(PassText(k)))
\* a block was captured and handed to the passes
BlockInHand == json_text # PyNone /\ json_text # <<>>

\* C22: the passes run in the order direct decode, repair, comment
\* removal, bracket fallback; a pass runs only when every earlier pass
\* failed to decode; what is returned is the result of the first pass
\* that decodes, None when its object has no key orders, and the result
\* of the bracket fallback only when no pass decodes.
C22_DecodePassOrder ==
    /\ \A k \in 1..Len(PassAt) :
          xpc = PassAt[k] => (BlockInHand /\ \A j \in 1..(k - 1) : PassFails(j))
    /\ (xpc = "returned" /\ BlockInHand) =>
          LET first == FirstPassFrom(1)
          IN  IF first = 4 THEN xret = bracket_fallback(json_text)
              ELSE PassDecodes(first) /\ xret = OrdersOfPass(first)

\* the direct decode and the repair fail, the comment pass decodes, and
\* its list of orders is returned
C22_ThirdPassReturned ==
    /\ xpc = "returned" /\ BlockInHand
    /\ PassFails(1) /\ PassFails(2) /\ PassDecodes(3)
    /\ xret = OrdersOfPass(3)
    /\ xret.val.kind = "list" /\ xret.val.items # <<>>

\* the elements of a decoded list that are no strings
NonStringElements == {PyNone, <<"int">>, <<"list">>, <<"dict">>}
\* the value is None, or a list whose elements are all strings
ActionListOrAbsent(v) ==
    \/ v.kind = "none"
    \/ /\ v.kind = "list"
       /\ \A n \in 1..Len(v.items) : v.items[n] \notin NonStringElements

\* C23: whatever the text, the value _extract_moves returns is None or a
\* list whose elements are all strings.
C23_OutputShape == xpc = "returned" => ActionListOrAbsent(xret.val)

\* what holds of C23: a value that is no list comes from a pass that
\* decoded an object, never from the bracket fallback
C23_BracketFallbackReturnsLists ==
    (xpc = "returned" /\ BlockInHand /\ FirstPassFrom(1) = 4)
        => xret.val.kind \in {"none", "list"}

\* a block on which json.loads raises an exception that is no
\* JSONDecodeError
BlockRaises == \E n \in 1..Len(llm_reply.found) : llm_reply.found[n].outcome = "ValueError"
\* a block that fails to decode
BlockFails == \E n \in 1..Len(llm_reply.found) : llm_reply.found[n].outcome # NoExc

\* C24: when the blocks are decoded one by one, a block that fails to
\* decode is skipped alone: the call returns every block that decodes and
\* passes validation, in the order of the blocks, wherever the failing
\* blocks stand.
C24_IndependentCandidates ==
    (mpc = "returned" /\ BlocksDecoded)
        => messages_to_return = WellFormedOf(DecodedBlocks(llm_reply.found))

\* what holds of C24: the blocks whose failure is a JSONDecodeError
C24_OnJSONDecodeErrors ==
    (mpc = "returned" /\ BlocksDecoded /\ ~BlockRaises)
        => messages_to_return = WellFormedOf(DecodedBlocks(llm_reply.found))

\* a block that fails with JSONDecodeError skipped and the block after it
\* returned
C24_FailingBlockSkipped ==
    /\ mpc = "returned" /\ BlocksDecoded
    /\ Len(llm_reply.found) = 2
    /\ llm_reply.found[1].outcome = "JSONDecodeError"
    /\ llm_reply.found[2].outcome = NoExc
    /\ messages_to_return = <<llm_reply.found[2].msg>>

(***************************************************************************)
(* Vocabulary of the layout claim                                          *)
(***************************************************************************)
\* the proposed actions that are legal, in proposal order
AcceptedProposals == SelectSeq(Proposed, Legal)
\* location i has a non-empty legal sequence and no accepted proposal
\* resolves to it
NeedsFallback(i) ==
    /\ NonEmptyAt(i)
    /\ \A j \in 1..Len(AcceptedProposals) :
          ~(HasLoc(AcceptedProposals[j]) /\ LocOf(AcceptedProposals[j]) = Entry(i).loc)
\* the locations that need a fallback, in the iteration order of
\* possible_orders, from location i on
RECURSIVE FallbackLocsFrom(_)
FallbackLocsFrom(i) ==
    IF i > NumLocs THEN <<>>
    ELSE IF NeedsFallback(i) THEN <<i>> \o FallbackLocsFrom(i + 1)
    ELSE FallbackLocsFrom(i + 1)

\* C25: for a list proposal the list _validate_orders returns is the
\* accepted proposals in proposal order, followed by one legal action of
\* each location that needs a fallback, in the iteration order of the
\* locations; no fallback stands before an accepted proposal.
C25_ValidatedOrdersLayout ==
    (ValidateReturned /\ moves.kind = "list") =>
        LET n == Len(AcceptedProposals)
            locs == FallbackLocsFrom(1)
        IN  /\ Len(ret.orders) = n + Len(locs)
            /\ SubSeq(ret.orders, 1, n) = AcceptedProposals
            /\ \A k \in 1..Len(locs) : LegalAt(ret.orders[n + k], locs[k])

\* the scenario of the spec: of two proposals the first is accepted and
\* the second rejected, and the fallback of the second location follows
\* the accepted proposal
C25_AcceptedThenFallback ==
    /\ ValidateReturned /\ WF
    /\ moves = PyList(<<A_PAR_BUR, A_MAR_SPA>>)
    /\ NumLocs = 2 /\ Entry(1).loc = PAR /\ Entry(2).loc = MAR /\ NonEmptyAt(2)
    /\ ret.orders = <<A_PAR_BUR, A_MAR_B>>
    /\ ret.invalid = <<A_MAR_SPA>>

GetOrdersReachedProvider ==
    /\ op \in {"get_orders", "get_orders_cancelled"}
    /\ fallback_orders(possible_orders).exc = NoExc

\* C27: every call of get_orders with a log file path that reaches the
\* provider call emits exactly one log record; when the call returns, the
\* record carries the status the call ended with, which is one of the four
\* outcomes; and the status is 'Success' only when the provider call and the
\* extraction raised nothing, the extraction produced a payload and no
\* proposed action was rejected as illegal.
C27_OneLogRecordPerOrderRequest ==
    (GetOrdersReachedProvider /\ log_file_path # <<>>) =>
        /\ Len(order_log) = 1
        /\ pc = "returned" =>
              /\ order_log[1] = ret.status
              /\ order_log[1] \in {"Success", "Failure: No moves extracted",
                                   "Failure: Invalid LLM Moves", "Failure: Exception"}
        /\ order_log[1] = "Success" =>
              /\ pc = "returned" /\ ~llm_failed
              /\ moves_truthy(moves)
              /\ \A j \in 1..Len(Proposed) : Legal(Proposed[j])

\* a call with a log path whose proposal held an illegal action: one record,
\* with the invalid-moves status, and a list returned
C27_InvalidMovesLogged ==
    /\ op = "get_orders" /\ pc = "returned" /\ log_file_path # <<>>
    /\ \E j \in 1..Len(Proposed) : Illegal(Proposed[j])
    /\ order_log = <<"Failure: Invalid LLM Moves">>
    /\ ret.orders # <<>>

\* a call with a log path on which every proposed action was accepted
C27_SuccessLogged ==
    /\ op = "get_orders" /\ pc = "returned" /\ log_file_path # <<>>
    /\ Len(Proposed) = 2
    /\ order_log = <<"Success">>

\* a cancelled call with a log path: one record, then the error leaves
C27_CancelledLogged ==
    /\ op = "get_orders_cancelled" /\ pc = "raised" /\ log_file_path # <<>>
    /\ order_log = <<"Failure: Initialized">>

\* an exception is raised inside the call: by the prompt construction, the
\* provider call or the formatter, by the decoding of the whole response, of
\* a fenced text or of a block reached (a JSONDecodeError of a block is
\* handled where it is raised)
CallRaises ==
    \/ llm_reply.provider # NoExc
    \/ llm_reply.direct = "ValueError"
    \/ llm_reply.search_raises
    \/ BlocksDecoded /\ \E i \in 1..Len(llm_reply.found) :
                            llm_reply.found[i].outcome = "ValueError"

\* C28: every call of get_conversation_reply ends by returning its list;
\* an exception in flight, a cancellation included, exists only inside the
\* call (on the way to the handler or to the finally clause) and is gone
\* when the call returns; the list returned is empty whenever something
\* raised; and at the return the record of the call, with its final status,
\* has been logged when a log file is given.
C28_NeverPropagates ==
    /\ [](raising # NoExc => mpc \in {"except", "finally"})
    /\ [](mpc = "returned" =>
            /\ raising = NoExc
            /\ CallRaises => messages_to_return = <<>>
            /\ llm_reply.log_file_path # <<>> => log_records = <<success_status>>)
    /\ <>(mpc = "returned")

\* a call cancelled while the provider was awaited has returned the empty
\* list after logging the status it started with
C28_CancellationSwallowed ==
    /\ mpc = "returned" /\ llm_reply.provider = "CancelledError"
    /\ raising = NoExc
    /\ messages_to_return = <<>>
    /\ log_records = <<"Failure: Initialized">>

\* a transcript record as the message validator leaves it: some object the
\* test of lines 644-647 accepts, with or without its recipient key (sender
\* and phase are added by the caller)
AcceptedRecord(msg) ==
    \E d \in Dicts : accepted(d) /\ d.recipient = msg.has_recipient

AcceptedTranscript(T) == \A i \in 1..Len(T) : AcceptedRecord(T[i])

-----------------------------------------------------------------------------
(***************************************************************************)
(* initialize_agent_state_ext (initialization.py, lines 21-201)            *)
(*                                                                         *)
(* A dict with str keys is a function on the set of its keys; the dicts    *)
(* of the model hold no two keys that str.upper() makes equal, so the      *)
(* order of their items does not show in the result.  agent is the state   *)
(* of the DiplomacyAgent: its power, its goals, its relationships and the  *)
(* journal entries added to it.  ALL_POWERS and ALLOWED_RELATIONSHIPS are  *)
(* imported from agent.py (line 13).                                       *)
(***************************************************************************)
NumPowers == 3

PowersInOrder ==
    <<"AUSTRIA", "ENGLAND", "FRANCE", "GERMANY", "ITALY", "RUSSIA", "TURKEY">>

\* the first NumPowers of the seven powers
ALL_POWERS == {PowersInOrder[i] : i \in 1..NumPowers}

ALLOWED_RELATIONSHIPS == {"Enemy", "Unfriendly", "Neutral", "Friendly", "Ally"}

\* the power of the agent being initialized
OwnPower == PowersInOrder[1]

\* a value that is no str: None
NoneValue == "<None>"

EmptyDict == <<>>

Truthy(d) == DOMAIN d # {}

\* str(p_key).upper() on the keys of the model
upper(p_key) == IF p_key = "england" THEN "ENGLAND" ELSE p_key

\* line 136: str(r_val).title() for a str, str(r_val) for another value
r_title_of(r_val) ==
    CASE r_val = NoneValue -> "None"
      [] r_val = "ALLY" -> "Ally"
      [] r_val = "bogus" -> "Bogus"
      [] OTHER -> r_val

\* mutant of valid_relationships_of: the label is stored without the test
\* of line 138
valid_relationships_unchecked(initial_relationships, own) ==
    LET kept == {k \in DOMAIN initial_relationships :
                    upper(k) \in ALL_POWERS /\ upper(k) # own}
    IN  [p \in {upper(k) : k \in kept} |->
            LET p_key == CHOOSE k \in kept : upper(k) = p
            IN  r_title_of(initial_relationships[p_key])]

\* lines 132-141: the entries kept of the relationships the LLM gave
valid_relationships_of(initial_relationships, own) ==
    LET kept == {k \in DOMAIN initial_relationships :
                    upper(k) \in ALL_POWERS /\ upper(k) # own}
    IN  [p \in {upper(k) : k \in kept} |->
            LET p_key == CHOOSE k \in kept : upper(k) = p
                r_title == r_title_of(initial_relationships[p_key])
            IN  IF r_title \in ALLOWED_RELATIONSHIPS THEN r_title ELSE "Neutral"]

default_goals ==
    <<"Survive and expand", "Form beneficial alliances", "Secure key territories">>

llm_goals == <<"Take Munich">>

\* lines 170 and 184: {p: "Neutral" for p in ALL_POWERS if p != power_name}
neutral_relationships(own) == [p \in ALL_POWERS \ {own} |-> "Neutral"]

\* lines 119-150: the goals and the relationships of a decoded dict applied
apply_llm_data(a, update_data) ==
    LET goals_ok == update_data.goals = "list"
        a1 == IF goals_ok
              THEN [a EXCEPT !.goals = llm_goals,
                             !.journal = Append(@, "Initial Goals Set by LLM")]
              ELSE a
        initial_relationships == update_data.relationships
        valid_relationships ==
            IF initial_relationships.kind = "dict" /\ Truthy(initial_relationships.items)
            THEN valid_relationships_of(initial_relationships.items, a.power_name)
            ELSE EmptyDict
        rel_ok == Truthy(valid_relationships)
        a2 == IF rel_ok
              THEN [a1 EXCEPT !.relationships = valid_relationships,
                              !.journal = Append(@, "Initial Relationships Set by LLM")]
              ELSE a1
    IN  [agent |-> a2, initial_goals_applied |-> goals_ok,
         initial_relationships_applied |-> rel_ok]

\* lines 161-167: the relationships are empty or Neutral for every other power
is_default_relationships(a) ==
    Truthy(a.relationships) =>
        \A p \in ALL_POWERS :
            p # a.power_name => (p \in DOMAIN a.relationships /\ a.relationships[p] = "Neutral")

\* lines 158-173: the defaults set where the LLM data were not applied
fallback_state(a, initial_goals_applied, initial_relationships_applied) ==
    LET a1 == IF ~initial_goals_applied /\ a.goals = <<>>
              THEN [a EXCEPT !.goals = default_goals,
                             !.journal = Append(@, "Set default initial goals")]
              ELSE a
    IN  IF ~initial_relationships_applied /\ is_default_relationships(a1)
        THEN [a1 EXCEPT !.relationships = neutral_relationships(a.power_name),
                        !.journal = Append(@, "Set default neutral relationships")]
        ELSE a1

\* lines 175-186: the handler of an Exception
except_state(a) ==
    LET a1 == IF a.goals = <<>> THEN [a EXCEPT !.goals = default_goals] ELSE a
    IN  IF \/ ~Truthy(a.relationships)
           \/ \A k \in DOMAIN a.relationships : a.relationships[k] = "Neutral"
        THEN [a1 EXCEPT !.relationships = neutral_relationships(a.power_name)]
        ELSE a1

\* lines 37-186: the agent and the status after the call, by what the
\* provider call and the decoding of its response gave
initialize_agent_state_ext(a, reply) ==
    CASE reply.outcome = "Exception" ->
            [agent |-> except_state(a), status |-> "Failure: Exception"]
      [] reply.outcome = "JSONDecodeError" ->
            [agent |-> fallback_state(a, FALSE, FALSE), status |-> "Failure: JSONDecodeError"]
      [] reply.outcome = "str" ->
            [agent |-> fallback_state(a, FALSE, FALSE), status |-> "Failure: ParsedAsStr"]
      [] reply.outcome = "list" ->
            [agent |-> fallback_state(a, FALSE, FALSE), status |-> "Failure: NotADict"]
      [] OTHER ->
            LET r == apply_llm_data(a, reply)
            IN  [agent |-> fallback_state(r.agent, r.initial_goals_applied,
                                          r.initial_relationships_applied),
                 status |-> IF r.initial_goals_applied \/ r.initial_relationships_applied
                            THEN "Success: Applied LLM data"
                            ELSE "Success: Parsed but no data applied"]

(* Inputs *)
\* the relationships an agent can hold before the call: any of the powers
\* mapped to a label, allowed or not
AgentDicts ==
    {d \in UNION {[D -> {"Neutral", "Ally", "bad"}] : D \in SUBSET ALL_POWERS} :
        OwnPower \in DOMAIN d => d[OwnPower] = "Neutral"}

Agents ==
    [power_name : {OwnPower}, goals : {<<>>, <<"Hold Vienna">>},
     relationships : AgentDicts, journal : {<<>>}]

\* the keys of the relationships an LLM gives: a power in small letters, the
\* other powers, the agent's own power and a name that is no power
LLMKeys == {"england"} \cup (ALL_POWERS \ {"ENGLAND"}) \cup {"MARS"}

LLMDicts ==
    {d \in UNION {[D -> {"ALLY", "bogus", NoneValue}] : D \in SUBSET LLMKeys} :
        \A k \in DOMAIN d \cap {OwnPower, "MARS"} : d[k] = "ALLY"}

NoRelationships == [kind |-> "none", items |-> EmptyDict]

InitLogPaths == {<<>>, <<"l", "o", "g">>}

\* the provider call or the extraction raises, the task is cancelled, or
\* the response decodes to a str or a list
UndecodedReplies ==
    [outcome : {"Exception", "CancelledError", "JSONDecodeError", "str", "list"},
     goals : {"absent"}, relationships : {NoRelationships},
     log_file_path : InitLogPaths]

\* the response decodes to a dict, with or without a list of goals, and
\* with relationships that are a dict or not
DictReplies ==
    [outcome : {"dict"}, goals : {"absent", "list"},
     relationships : {NoRelationships} \cup {[kind |-> "dict", items |-> d] : d \in LLMDicts},
     log_file_path : InitLogPaths]

InitAgent ==
    /\ OrdersIdle
    /\ FilterIdle
    /\ LoadIdle
    /\ ExtractIdle
    /\ ScanIdle
    /\ ReplyIdle
    /\ agent \in Agents
    /\ agent_at_call = agent
    /\ init_reply = [outcome |-> "none", goals |-> "absent",
                     relationships |-> NoRelationships, log_file_path |-> <<>>]
    /\ init_status = "Failure: Initialized"
    /\ init_log = <<>>
    /\ ipc = "ready"

\* a call that returns: lines 37-201, with the finally clause that logs
\* the status when a log file is given
Call_initialize_agent_state_ext ==
    /\ ipc = "ready"
    /\ \E reply \in UndecodedReplies \cup DictReplies :
          /\ reply.outcome # "CancelledError"
          /\ LET r == initialize_agent_state_ext(agent, reply)
             IN  /\ agent' = r.agent
                 /\ init_status' = r.status
                 /\ init_log' = IF reply.log_file_path # <<>> THEN <<r.status>> ELSE <<>>
          /\ init_reply' = reply
    /\ ipc' = "returned"
    /\ UNCHANGED agent_at_call
    /\ UNCHANGED not_ivars

\* a call cancelled while the provider is awaited (line 68): CancelledError
\* is no Exception, the finally clause logs and the error leaves the call
Cancelled_initialize_agent_state_ext ==
    /\ ipc = "ready"
    /\ \E reply \in UndecodedReplies :
          /\ reply.outcome = "CancelledError"
          /\ init_log' = IF reply.log_file_path # <<>> THEN <<init_status>> ELSE <<>>
          /\ init_reply' = reply
    /\ ipc' = "raised"
    /\ UNCHANGED <<agent, agent_at_call, init_status>>
    /\ UNCHANGED not_ivars

NextAgent ==
    \/ Call_initialize_agent_state_ext
    \/ Cancelled_initialize_agent_state_ext

SpecAgent == InitAgent /\ [][NextAgent]_vars

TypeOKAgent ==
    /\ agent.power_name = OwnPower
    /\ DOMAIN agent.relationships \subseteq ALL_POWERS
    /\ Len(agent.journal) <= 2
    /\ Len(init_log) <= 1
    /\ ipc \in {"ready", "returned", "raised"}

(* Vocabulary of the initialization claims *)
OtherPowers == ALL_POWERS \ {OwnPower}

\* every key is a power other than the agent's own, every value an allowed
\* label
WellFormedRelationships(rel) ==
    \A k \in DOMAIN rel : k \in OtherPowers /\ rel[k] \in ALLOWED_RELATIONSHIPS

\* an entry for every other power
TotalRelationships(rel) == OtherPowers \subseteq DOMAIN rel

CallEnded == ipc \in {"returned", "raised"}

\* the relationships the LLM gave, when the response decoded to a dict
\* holding a dict of relationships
GivenRelationships ==
    IF init_reply.outcome = "dict" /\ init_reply.relationships.kind = "dict"
    THEN init_reply.relationships.items ELSE EmptyDict

\* the entries of the LLM that name another power
GivenForOthers == {k \in DOMAIN GivenRelationships : upper(k) \in OtherPowers}

\* C29: when the relationships are well-formed before the call, they are
\* well-formed when the call ends, on every path; and when the LLM gave an
\* entry for another power, the relationships are exactly the LLM's entries
\* for other powers, each with its label in title case when that is an
\* allowed label and with 'Neutral' when it is not, entries for unknown
\* powers and for the agent's own power being left out.
C29_RelationshipsStayWellFormed ==
    CallEnded =>
        /\ WellFormedRelationships(agent_at_call.relationships)
              => WellFormedRelationships(agent.relationships)
        /\ (ipc = "returned" /\ GivenForOthers # {}) =>
              /\ DOMAIN agent.relationships = {upper(k) : k \in GivenForOthers}
              /\ \A k \in GivenForOthers :
                    agent.relationships[upper(k)] =
                        IF r_title_of(GivenRelationships[k]) \in ALLOWED_RELATIONSHIPS
                        THEN r_title_of(GivenRelationships[k]) ELSE "Neutral"

\* an LLM response with an allowed label in capitals, a label outside the
\* allowed set, an entry for the agent's own power and one for an unknown
\* power, applied to well-formed relationships
C29_LabelsNormalised ==
    /\ ipc = "returned"
    /\ WellFormedRelationships(agent_at_call.relationships)
    /\ agent_at_call.relationships # EmptyDict
    /\ GivenRelationships =
          [k \in {"england", "FRANCE", OwnPower, "MARS"} |->
              CASE k = "england" -> "ALLY" [] k = "FRANCE" -> "bogus" [] OTHER -> "ALLY"]
    /\ agent.relationships =
          [p \in {"ENGLAND", "FRANCE"} |-> IF p = "ENGLAND" THEN "Ally" ELSE "Neutral"]

\* C30: when the relationships have an entry for every other power before
\* the call, they have one for every other power when the call returns.
C30_RelationshipsStayTotal ==
    (ipc = "returned" /\ TotalRelationships(agent_at_call.relationships))
        => TotalRelationships(agent.relationships)

\* what holds of C30: calls on which no LLM relationships are applied, and
\* calls whose LLM response names every other power
C30_TotalUnlessPartialResponse ==
    (CallEnded /\ TotalRelationships(agent_at_call.relationships)
        /\ (GivenForOthers = {} \/ {upper(k) : k \in GivenForOthers} = OtherPowers))
        => TotalRelationships(agent.relationships)

\* an LLM response naming one power replaced relationships that were total
C30_PartialResponseReached ==
    /\ ipc = "returned"
    /\ TotalRelationships(agent_at_call.relationships)
    /\ DOMAIN GivenRelationships = {"FRANCE"}
    /\ DOMAIN agent.relationships = {"FRANCE"}

====
